---- MODULE Spec2Model ----
(***************************************************************************)
(* The agent execution loop of backend/agent/run.py (run_agent), as a      *)
(* state machine.  One behaviour is one call of run_agent: the generator   *)
(* is resumed step by step by its consumer, and between two steps other    *)
(* processes (the model invocation's tools, the user) may append messages  *)
(* to the thread.                                                          *)
(***************************************************************************)
EXTENDS Naturals, Sequences, FiniteSets, TLC

(***************************************************************************)
(* Bounds of the model.                                                    *)
(***************************************************************************)
\* the largest max_iterations a run is started with
MaxIter == 2
\* the largest number of chunks one model stream produces
MaxStream == 2
\* the largest number of messages ever created in the thread
MaxMsgs == 2

(***************************************************************************)
(* Text.  A text is a sequence of tokens; the markup characters are tokens *)
(* of their own, so that "</ask>" and "<ask>" are different token          *)
(* sequences and `in` is a search for a contiguous run of tokens.          *)
(***************************************************************************)
OpenTag(name) == <<"<", name, ">">>

CloseTag(name) == <<"<", "/", name, ">">>

\* Python's `pat in text` on strings
Contains(text, pat) ==
    \E i \in 1..(Len(text) + 1) :
        /\ i + Len(pat) - 1 <= Len(text)
        /\ SubSeq(text, i, i + Len(pat) - 1) = pat

\* a mutant of DetectXmlTool: the tag name alone registers the action
DetectXmlToolByName(assistant_text) ==
    IF Contains(assistant_text, <<"ask", ">">>) THEN "ask"
    ELSE IF Contains(assistant_text, <<"complete", ">">>) THEN "complete"
    ELSE IF Contains(assistant_text, <<"web-browser-takeover", ">">>)
         THEN "web-browser-takeover"
    ELSE "None"

\* where pat first occurs in text, Len(text) + 1 when it does not
FirstAt(text, pat) ==
    LET at == {i \in 1..Len(text) : /\ i + Len(pat) - 1 <= Len(text)
                                    /\ SubSeq(text, i, i + Len(pat) - 1) = pat}
    IN  IF at = {} THEN Len(text) + 1 ELSE CHOOSE i \in at : \A j \in at : i <= j

\* a mutant of DetectXmlTool: the closing tag that comes first in the text wins
DetectXmlToolFirst(assistant_text) ==
    LET names == {"ask", "complete", "web-browser-takeover"}
        found == {n \in names : Contains(assistant_text, CloseTag(n))}
    IN  IF found = {} THEN "None"
        ELSE CHOOSE n \in found :
                 \A o \in found : FirstAt(assistant_text, CloseTag(n))
                                     <= FirstAt(assistant_text, CloseTag(o))

\* run.py 230-238: the xml_tool a text registers, "None" when it registers none
DetectXmlTool(assistant_text) ==
    IF \/ Contains(assistant_text, CloseTag("ask"))
       \/ Contains(assistant_text, CloseTag("complete"))
       \/ Contains(assistant_text, CloseTag("web-browser-takeover"))
    THEN IF Contains(assistant_text, CloseTag("ask")) THEN "ask"
         ELSE IF Contains(assistant_text, CloseTag("complete")) THEN "complete"
         ELSE "web-browser-takeover"
    ELSE "None"

(***************************************************************************)
(* Chunks of the model stream.  A chunk is a dict with a type and,         *)
(* possibly, a content.  The content is:                                   *)
(*   form "absent"  the chunk has no 'content' key                         *)
(*   form "str"     a string; json is what json.loads makes of it          *)
(*   form "obj"     an already structured value, json                      *)
(* A JSON value is kind "malformed" (the string is no JSON), "list" (JSON, *)
(* but no object), "null" or "dict"; a dict has, possibly, a 'content'     *)
(* entry: inner "absent", "str" (with its text) or "num".                  *)
(***************************************************************************)
Json(kind, inner, text) == [kind |-> kind, inner |-> inner, text |-> text]

Chunk(type, form, json) == [type |-> type, content |-> [form |-> form, json |-> json]]

NoJson == Json("null", "absent", <<>>)

\* texts of assistant output
TextCompleteAtEnd == <<"x">> \o OpenTag("complete") \o <<"x">> \o CloseTag("complete")

TextAsk == OpenTag("ask") \o <<"x">> \o CloseTag("ask") \o <<"x">>

TextTakeover == CloseTag("web-browser-takeover")

TextOpeningOnly ==
    OpenTag("ask") \o OpenTag("complete") \o OpenTag("web-browser-takeover") \o <<"x">>

\* a mutant of ParseChunk: the type of the chunk is not looked at
ParseChunkAnyType(chunk) ==
    IF chunk.content.form = "absent" THEN "skipped"
    ELSE IF chunk.content.form = "str" /\ chunk.content.json.kind = "malformed"
         THEN "json_error"
    ELSE IF chunk.content.json.kind # "dict" THEN "error"
    ELSE IF chunk.content.json.inner = "num" THEN "not_str"
    ELSE "text"

\* run.py 217-244: what parsing one chunk comes to:
\*   "skipped"     not an assistant chunk, or no 'content' key
\*   "json_error"  json.loads raised JSONDecodeError
\*   "error"       another exception (no .get on the parsed value)
\*   "not_str"     the nested content is no string
\*   "text"        the nested content is a string
ParseChunk(chunk) ==
    IF ~(chunk.type = "assistant" /\ chunk.content.form # "absent") THEN "skipped"
    ELSE IF chunk.content.form = "str" /\ chunk.content.json.kind = "malformed"
         THEN "json_error"
    ELSE IF chunk.content.json.kind # "dict" THEN "error"
    ELSE IF chunk.content.json.inner = "num" THEN "not_str"
    ELSE "text"

\* run.py 227: assistant_content_json.get('content', '')
AssistantText(chunk) ==
    IF chunk.content.json.inner = "absent" THEN <<>> ELSE chunk.content.json.text

\* a mutant of ObserveChunk: a chunk that does not parse forgets the action
ObserveChunkForgetful(chunk, last) ==
    IF ParseChunk(chunk) = "text"
    THEN IF DetectXmlTool(AssistantText(chunk)) # "None"
         THEN DetectXmlTool(AssistantText(chunk))
         ELSE last
    ELSE IF ParseChunk(chunk) = "skipped" THEN last ELSE "None"

\* run.py 217-244: last_tool_call after the chunk, given last_tool_call before
ObserveChunk(chunk, last) ==
    IF ParseChunk(chunk) = "text" /\ DetectXmlTool(AssistantText(chunk)) # "None"
    THEN DetectXmlTool(AssistantText(chunk))
    ELSE last

\* the chunks a model stream is drawn from when the stream is what is checked
StreamChunks ==
    { Chunk("assistant", "str", Json("dict", "str", TextCompleteAtEnd)),
      Chunk("assistant", "obj", Json("dict", "str", TextAsk)),
      Chunk("assistant", "str", Json("dict", "str", TextTakeover)),
      Chunk("assistant", "str", Json("dict", "str", TextOpeningOnly)),
      Chunk("assistant", "str", Json("malformed", "absent", <<>>)),
      Chunk("assistant", "obj", Json("list", "absent", <<>>)),
      Chunk("assistant", "obj", Json("dict", "num", <<>>)),
      Chunk("tool", "str", Json("dict", "str", TextAsk)),
      Chunk("status", "absent", NoJson) }

\* the chunks a model stream is drawn from when the loop is what is checked
LoopChunks ==
    { Chunk("assistant", "str", Json("dict", "str", TextCompleteAtEnd)),
      Chunk("assistant", "str", Json("dict", "str", TextOpeningOnly)),
      Chunk("tool", "str", Json("dict", "str", TextAsk)) }

(***************************************************************************)
(* The thread.  A message is [message_id, type, content]; created_at is    *)
(* the position in the sequence `messages`.  The content of a message is   *)
(* what json.loads makes of it: kind "malformed", "list" or "dict" (with   *)
(* the dict as a record), or kind "text" for the messages the loop never   *)
(* parses.                                                                 *)
(***************************************************************************)
EmptyDict == [k \in {} |-> ""]

Content(kind, dict) == [kind |-> kind, dict |-> dict]

PlainContent == Content("text", EmptyDict)

Message(id, type, content) == [message_id |-> id, type |-> type, content |-> content]

\* dict.get(key), with None as "None"
Get(dict, key) == IF key \in DOMAIN dict THEN dict[key] ELSE "None"

\* dict.get(key, default)
GetOr(dict, key, default) == IF key \in DOMAIN dict THEN dict[key] ELSE default

\* a copy of dict with dict.pop(key, None) done for every key of keys
PopAll(dict, keys) == [k \in (DOMAIN dict) \ keys |-> dict[k]]

\* Python's truth value of a string or None
Truthy(v) == v # "None" /\ v # ""

\* a mutant of SelectLatest: the filter on the type is left out
SelectLatestAnyType(msgs, types) ==
    IF msgs = <<>> THEN <<>> ELSE <<msgs[Len(msgs)]>>

\* select('*').eq('type', ...).in_('type', types).order('created_at', desc=True).limit(1)
\* the rows of the thread whose type is in types, latest first, at most one
SelectLatest(msgs, types) ==
    LET idx == {i \in 1..Len(msgs) : msgs[i].type \in types}
    IN  IF idx = {} THEN <<>>
        ELSE <<msgs[CHOOSE i \in idx : \A j \in idx : j <= i]>>

\* a mutant of DeleteById: the rows created before the row go with it
DeleteByIdAlsoEarlier(msgs, id) ==
    SelectSeq(msgs, LAMBDA m : m.message_id > id)

\* a mutant of DeleteById: the row is not deleted
DeleteByIdNothing(msgs, id) == msgs

\* delete().eq('message_id', id)
RECURSIVE DeleteById(_, _)
DeleteById(msgs, id) ==
    IF msgs = <<>> THEN <<>>
    ELSE IF Head(msgs).message_id = id THEN DeleteById(Tail(msgs), id)
    ELSE <<Head(msgs)>> \o DeleteById(Tail(msgs), id)

TextBlock(text) == [type |-> "text", text |-> text, url |-> <<>>]

ImageBlock(url) == [type |-> "image_url", text |-> <<>>, url |-> url]

\* a mutant of BrowserStateText: only screenshot_base64 is popped
BrowserStateTextKeepsUrl(browser_content) ==
    PopAll(browser_content, {"screenshot_base64"})

\* run.py 119-125: the browser state without its screenshot entries
BrowserStateText(browser_content) ==
    PopAll(browser_content, {"screenshot_base64", "screenshot_url", "screenshot_url_base64"})

\* run.py 119-140: the blocks a browser_state content adds; the content is a dict
BrowserBlocks(browser_content) ==
    (IF DOMAIN BrowserStateText(browser_content) # {}
     THEN <<TextBlock(<<"The following is the current state of the browser:",
                        BrowserStateText(browser_content)>>)>>
     ELSE <<>>)
    \o
    (IF Truthy(Get(browser_content, "screenshot_base64"))
     THEN <<ImageBlock(<<"data:image/jpeg;base64,",
                         Get(browser_content, "screenshot_base64")>>)>>
     ELSE <<>>)

\* run.py 150-167: the blocks an image_context content adds; the content is a dict
ImageBlocks(image_context_content) ==
    IF Truthy(Get(image_context_content, "base64"))
       /\ Truthy(Get(image_context_content, "mime_type"))
    THEN <<TextBlock(<<"Here is the image you requested to see: ",
                       GetOr(image_context_content, "file_path", "unknown file")>>),
           ImageBlock(<<"data:", Get(image_context_content, "mime_type"), ";base64,",
                        Get(image_context_content, "base64")>>)>>
    ELSE <<>>

\* the messages of the thread when the stream is what is checked
StreamEnvMessages ==
    { [type |-> "user", content |-> PlainContent],
      [type |-> "assistant", content |-> PlainContent] }

\* the messages of the thread when the loop is what is checked
EnvMessages ==
    { [type |-> "user", content |-> PlainContent],
      [type |-> "assistant", content |-> PlainContent],
      [type |-> "browser_state",
       content |-> Content("dict", [screenshot_base64 |-> "AAA", mapX |-> "1"])],
      [type |-> "image_context",
       content |-> Content("dict", [base64 |-> "BBB", mime_type |-> "image/png",
                                    file_path |-> "a.png"])] }

(***************************************************************************)
(* The state of one run of run_agent.                                      *)
(***************************************************************************)
VARIABLES
    max_iterations,             \* the argument of run_agent
    iteration_count,            \* run.py 84
    continue_execution,         \* run.py 85
    pc,                         \* where the generator is suspended
    exit,                       \* how the generator ended, "running" before
    can_run,                    \* run.py 92: the billing answer of this iteration
    message,                    \* run.py 92: and its message
    response,                   \* run.py 181: what run_thread returned
    messages,                   \* the rows of the thread, in creation order
    next_id,                    \* the message_id of the next row created
    temp_message_content_list,  \* run.py 113
    temporary_message,          \* run.py 112: <<>> is None, else <<the message>>
    last_tool_call,             \* run.py 211
    produced,                   \* the chunks this iteration's stream produced
    events,                     \* the events yielded in this iteration
    invocations,                \* calls of thread_manager.run_thread so far
    ops,                        \* the external calls made in this iteration
    created                     \* every row ever created in the thread, by message_id

(***************************************************************************)
(* The state of one MCPManager (backend/mcp_local/client.py) and of the    *)
(* coroutines that call it.                                                *)
(***************************************************************************)
VARIABLES
    SMITHERY_API_KEY,           \* client.py 41: "None" when the variable is not set
    connections,                \* client.py 76: qualified name -> MCPConnection
    call,                       \* caller -> the call it is in, and where
    opened,                     \* qualified name -> transports opened to it so far
    objects,                    \* the MCPConnection objects constructed so far
    calls                       \* the calls started so far

(***************************************************************************)
(* The module global of backend/agent/tools/mcp_tool_wrapper.py and the    *)
(* managers get_mcp_manager has constructed.                               *)
(***************************************************************************)
VARIABLES
    mcp_manager,                \* mcp_tool_wrapper.py 9: 0 is None, else the manager
    caches                      \* manager -> its connections (client.py 76)

wrapperVars == <<mcp_manager, caches>>

(***************************************************************************)
(* The sandbox (backend/sandbox): the workspaces of the Daytona server, the *)
(* one DaytonaSandbox object and the one SandboxToolsBase instance.        *)
(***************************************************************************)
VARIABLES
    workspaces,                 \* workspace id -> its state and label at the server
    daytona,                    \* the DaytonaSandbox object, NoSandbox before it is made
    tool_base,                  \* the SandboxToolsBase instance, NoTool if there is none
    sandbox_result,             \* what the last call of the sandbox came to
    creations,                  \* the calls of daytona_client.create that succeeded
    starts,                     \* the calls of start() by _ensure_sandbox that returned
    sandbox_calls               \* the calls made so far

sandboxVars == <<workspaces, daytona, tool_base, sandbox_result, creations, starts, sandbox_calls>>

mcpVars == <<SMITHERY_API_KEY, connections, call, opened, objects, calls, wrapperVars>>

vars == <<max_iterations, iteration_count, continue_execution, pc, exit, can_run,
          message, response, messages, next_id, temp_message_content_list,
          temporary_message, last_tool_call,
          produced, events, invocations, ops, created, mcpVars, sandboxVars>>

\* the coroutines that may be inside the manager at the same time
Callers == {"c1", "c2"}

\* the servers the configurations name
QualifiedNames == {"exa", "a_b"}

\* a caller that is in no call
NoCall == [op |-> "None", pc |-> "idle", configs |-> <<>>, idx |-> 0,
           result |-> <<>>, outcomes |-> <<>>]

\* no sandbox instance loaded
NoInstance == [id |-> "None", state |-> "None"]

\* no DaytonaSandbox constructed; auto_create is the argument of the
\* constructor, which the object does not keep
NoSandbox ==
    [constructed |-> FALSE, sandbox_id |-> "None", project_id_label |-> "None",
     sandbox_instance |-> NoInstance, auto_create |-> FALSE]

\* no SandboxToolsBase instance
NoTool ==
    [constructed |-> FALSE, project_id |-> "None", db |-> "None",
     _sandbox |-> "None", _sandbox_id |-> "None"]

NoOutcome == [op |-> "None", result |-> "None"]

\* nothing of the sandbox is in use
NoSandboxes ==
    /\ workspaces = [id \in {} |-> NoInstance]
    /\ daytona = NoSandbox
    /\ tool_base = NoTool
    /\ sandbox_result = NoOutcome
    /\ creations = 0
    /\ starts = 0
    /\ sandbox_calls = 0

\* client.py 41, 75-77: the module is imported with one of keys in the
\* environment and the manager constructed
ManagerInit(keys) ==
    /\ SMITHERY_API_KEY \in keys
    /\ connections = EmptyDict
    /\ call = [c \in Callers |-> NoCall]
    /\ opened = [q \in QualifiedNames |-> 0]
    /\ objects = 0
    /\ calls = 0
    /\ mcp_manager = 0
    /\ caches = <<>>

\* no response yet
NoResponse == [kind |-> "None", status |-> "None", message |-> "None"]

\* a thread of the messages ms (type and content), created in that order
RECURSIVE Thread(_, _)
Thread(ms, first_id) ==
    IF ms = <<>> THEN <<>>
    ELSE <<Message(first_id, Head(ms).type, Head(ms).content)>>
         \o Thread(Tail(ms), first_id + 1)

\* the threads a run starts on: empty, or one message of ms
InitThreads(ms) ==
    {<<>>} \cup {Thread(<<m>>, 1) : m \in ms}

\* run.py 84-85, with the thread as the run finds it
LoopInit(threads) ==
    /\ max_iterations \in 0..MaxIter
    /\ iteration_count = 0
    /\ continue_execution = TRUE
    /\ pc = "loop"
    /\ exit = "running"
    /\ can_run = TRUE
    /\ message = "None"
    /\ response = NoResponse
    /\ messages \in threads
    /\ next_id = Len(messages) + 1
    /\ temp_message_content_list = <<>>
    /\ temporary_message = <<>>
    /\ last_tool_call = "None"
    /\ produced = <<>>
    /\ events = <<>>
    /\ invocations = 0
    /\ ops = <<>>
    /\ created = messages

\* a run of the loop, beside a manager nothing calls
InitOver(threads) == LoopInit(threads) /\ ManagerInit({"None"}) /\ NoSandboxes

Init == InitOver(InitThreads(EnvMessages))

InitStream == InitOver(InitThreads(StreamEnvMessages))

\* a mutant of LoopCond: one iteration too many
LoopCondOffByOne(ce, ic, mi) == ce /\ ic <= mi

\* a mutant of LoopCond: the iteration cap is not checked
LoopCondNoCap(ce, ic, mi) == ce

\* run.py 87: the condition of the while loop
LoopCond(ce, ic, mi) == ce /\ ic < mi

\* a mutant of BillingStopEvent: the reason is left out
BillingStopEventNoReason(reason) ==
    [type |-> "status", status |-> "stopped", message |-> <<"Billing limit reached: ">>]

\* a mutant of IncrementIteration: the count is not incremented
IncrementIterationForgotten(ic) == ic

\* run.py 88: iteration_count += 1
IncrementIteration(ic) == ic + 1

\* run.py 94-100: the event of a billing stop
BillingStopEvent(reason) ==
    [type |-> "status", status |-> "stopped",
     message |-> <<"Billing limit reached: ", reason>>]

\* the answers of check_billing_status: can_run and its message
BillingAnswers == {<<TRUE, "OK">>, <<FALSE, "limit">>, <<FALSE, "no subscription">>}

\* run.py 87-101: the loop is entered, iteration_count incremented and the
\* billing status checked; a refusal is yielded and ends the run
StartIteration(answer) ==
    /\ pc = "loop"
    /\ LoopCond(continue_execution, iteration_count, max_iterations)
    /\ iteration_count <= MaxIter
    /\ iteration_count' = IncrementIteration(iteration_count)
    /\ ops' = <<"check_billing_status">>
    /\ can_run' = answer[1]
    /\ message' = answer[2]
    /\ IF ~answer[1]
       THEN /\ events' = <<BillingStopEvent(answer[2])>>
            /\ pc' = "done"
            /\ exit' = "billing"
       ELSE /\ events' = <<>>
            /\ pc' = "latest"
            /\ exit' = exit
    /\ produced' = <<>>
    /\ UNCHANGED <<max_iterations, continue_execution, response, messages, next_id,
                   temp_message_content_list, temporary_message, last_tool_call,
                   invocations>>
    /\ UNCHANGED <<created, mcpVars, sandboxVars>>

\* run.py 87: the condition of the while loop is false, the generator returns
LoopExit ==
    /\ pc = "loop"
    /\ ~LoopCond(continue_execution, iteration_count, max_iterations)
    /\ pc' = "done"
    /\ exit' = "returned"
    /\ UNCHANGED <<can_run, message, response,
                   max_iterations, iteration_count, continue_execution, messages,
                   next_id, temp_message_content_list, temporary_message,
                   last_tool_call, produced, events, invocations, ops>>
    /\ UNCHANGED <<created, mcpVars, sandboxVars>>

\* a mutant of LatestIsAssistant: the latest assistant message is not looked at
LatestIsAssistantNever(latest_message) == FALSE

\* run.py 104-106: the latest message is there and is an assistant message
LatestIsAssistant(latest_message) ==
    Len(latest_message) > 0 /\ latest_message[1].type = "assistant"

\* run.py 103-113: the latest assistant, tool or user message is read; an
\* assistant message ends the run, otherwise the temporary message is reset
CheckLatestMessage ==
    /\ pc = "latest"
    /\ ops' = Append(ops, "select_latest_message")
    /\ IF LatestIsAssistant(SelectLatest(messages, {"assistant", "tool", "user"}))
       THEN /\ continue_execution' = FALSE
            /\ pc' = "done"
            /\ exit' = "assistant"
            /\ UNCHANGED <<temp_message_content_list, temporary_message>>
       ELSE /\ temporary_message' = <<>>
            /\ temp_message_content_list' = <<>>
            /\ pc' = "browser"
            /\ UNCHANGED <<continue_execution, exit>>
    /\ UNCHANGED <<can_run, message, response,
                   max_iterations, iteration_count, messages, next_id,
                   last_tool_call, produced, events, invocations>>
    /\ UNCHANGED <<created, mcpVars, sandboxVars>>

\* run.py 116-144: the latest browser_state message is read; if its content
\* parses to a dict its blocks are added and the message is deleted by id,
\* otherwise the exception is logged and the message left where it is
BrowserState ==
    /\ pc = "browser"
    /\ LET latest_browser_state_msg == SelectLatest(messages, {"browser_state"})
       IN  IF Len(latest_browser_state_msg) > 0
              /\ latest_browser_state_msg[1].content.kind = "dict"
           THEN /\ temp_message_content_list' =
                       temp_message_content_list
                       \o BrowserBlocks(latest_browser_state_msg[1].content.dict)
                /\ messages' = DeleteById(messages, latest_browser_state_msg[1].message_id)
                /\ ops' = ops \o <<"select_browser_state", "delete_message">>
           ELSE /\ ops' = Append(ops, "select_browser_state")
                /\ UNCHANGED <<temp_message_content_list, messages>>
    /\ pc' = "image"
    /\ UNCHANGED <<can_run, message, response,
                   max_iterations, iteration_count, continue_execution, exit, next_id,
                   temporary_message, last_tool_call, produced, events, invocations>>
    /\ UNCHANGED <<created, mcpVars, sandboxVars>>

\* a mutant of TemporaryMessage: an empty list makes a message too
TemporaryMessageAlways(content_list) == <<[role |-> "user", content |-> content_list]>>

\* run.py 174-175: the temporary message of a list of blocks, None if it is empty
TemporaryMessage(content_list) ==
    IF content_list # <<>> THEN <<[role |-> "user", content |-> content_list]>> ELSE <<>>

\* a mutant of ImageContext: one try block around both messages, so that a
\* browser_state content that failed to parse skips the image_context message
ImageContextOneTry ==
    /\ pc = "image"
    /\ LET latest_browser_state_msg == SelectLatest(messages, {"browser_state"})
           latest_image_context_msg == SelectLatest(messages, {"image_context"})
           reached == /\ Len(latest_image_context_msg) > 0
                      /\ latest_image_context_msg[1].content.kind = "dict"
                      /\ ~(/\ Len(latest_browser_state_msg) > 0
                            /\ latest_browser_state_msg[1].content.kind # "dict")
           list == IF reached
                   THEN temp_message_content_list
                        \o ImageBlocks(latest_image_context_msg[1].content.dict)
                   ELSE temp_message_content_list
       IN  /\ IF reached
              THEN /\ messages' = DeleteById(messages, latest_image_context_msg[1].message_id)
                   /\ ops' = ops \o <<"select_image_context", "delete_message">>
              ELSE /\ ops' = Append(ops, "select_image_context")
                   /\ UNCHANGED messages
           /\ temp_message_content_list' = list
           /\ temporary_message' = TemporaryMessage(list)
    /\ pc' = "invoke"
    /\ UNCHANGED <<can_run, message, response,
                   max_iterations, iteration_count, continue_execution, exit, next_id,
                   last_tool_call, produced, events, invocations>>
    /\ UNCHANGED <<created, mcpVars, sandboxVars>>

\* run.py 147-175: the same for the latest image_context message, and the
\* temporary message is built
ImageContext ==
    /\ pc = "image"
    /\ LET latest_image_context_msg == SelectLatest(messages, {"image_context"})
           list == IF Len(latest_image_context_msg) > 0
                      /\ latest_image_context_msg[1].content.kind = "dict"
                   THEN temp_message_content_list
                        \o ImageBlocks(latest_image_context_msg[1].content.dict)
                   ELSE temp_message_content_list
       IN  /\ IF Len(latest_image_context_msg) > 0
                 /\ latest_image_context_msg[1].content.kind = "dict"
              THEN /\ messages' = DeleteById(messages, latest_image_context_msg[1].message_id)
                   /\ ops' = ops \o <<"select_image_context", "delete_message">>
              ELSE /\ ops' = Append(ops, "select_image_context")
                   /\ UNCHANGED messages
           /\ temp_message_content_list' = list
           /\ temporary_message' = TemporaryMessage(list)
    /\ pc' = "invoke"
    /\ UNCHANGED <<can_run, message, response,
                   max_iterations, iteration_count, continue_execution, exit, next_id,
                   last_tool_call, produced, events, invocations>>
    /\ UNCHANGED <<created, mcpVars, sandboxVars>>

\* what thread_manager.run_thread returns: an error status object or a stream
Responses ==
    { [kind |-> "dict", status |-> "error", message |-> "llm failed"],
      [kind |-> "stream", status |-> "None", message |-> "None"] }

\* a mutant of IsErrorStatus: an error status object is taken for a stream
IsErrorStatusNever(returned) == FALSE

\* run.py 206: the response is an error status object
IsErrorStatus(returned) == returned.kind = "dict" /\ returned.status = "error"

\* run.py 181-211: the model is invoked; an error status object is yielded and
\* ends the run, otherwise the stream is about to be consumed
RunThread(returned) ==
    /\ pc = "invoke"
    /\ invocations <= MaxIter
    /\ invocations' = invocations + 1
    /\ ops' = Append(ops, "run_thread")
    /\ response' = returned
    /\ IF IsErrorStatus(returned)
       THEN /\ events' = Append(events, returned)
            /\ pc' = "done"
            /\ exit' = "error"
            /\ UNCHANGED <<last_tool_call, produced>>
       ELSE /\ last_tool_call' = "None"
            /\ pc' = "stream"
            /\ UNCHANGED <<events, exit, produced>>
    /\ UNCHANGED <<can_run, message,
                   max_iterations, iteration_count, continue_execution, messages,
                   next_id, temp_message_content_list, temporary_message>>
    /\ UNCHANGED <<created, mcpVars, sandboxVars>>

\* a mutant of Forward: only the chunks that were inspected are yielded
ForwardInspected(chunk) == IF ParseChunk(chunk) = "skipped" THEN <<>> ELSE <<chunk>>

\* run.py 246: what the loop yields for a chunk
Forward(chunk) == <<chunk>>

\* a mutant of StreamChunk: the text of the chunk before is kept, and the
\* closing tags are looked for in the two texts put together
StreamChunkAccumulating(chunk) ==
    /\ pc = "stream"
    /\ Len(produced) < MaxStream
    /\ produced' = Append(produced, chunk)
    /\ LET before == IF /\ produced # <<>>
                        /\ ParseChunk(produced[Len(produced)]) = "text"
                     THEN AssistantText(produced[Len(produced)])
                     ELSE <<>>
       IN  last_tool_call' =
               IF /\ ParseChunk(chunk) = "text"
                  /\ DetectXmlTool(before \o AssistantText(chunk)) # "None"
               THEN DetectXmlTool(before \o AssistantText(chunk))
               ELSE last_tool_call
    /\ events' = events \o Forward(chunk)
    /\ UNCHANGED <<can_run, message, response,
                   max_iterations, iteration_count, continue_execution, pc, exit,
                   messages, next_id, temp_message_content_list, temporary_message,
                   invocations, ops>>
    /\ UNCHANGED <<created, mcpVars, sandboxVars>>

\* run.py 213-246: the stream produces a chunk; it is inspected and yielded
StreamChunk(chunk) ==
    /\ pc = "stream"
    /\ Len(produced) < MaxStream
    /\ produced' = Append(produced, chunk)
    /\ last_tool_call' = ObserveChunk(chunk, last_tool_call)
    /\ events' = events \o Forward(chunk)
    /\ UNCHANGED <<can_run, message, response,
                   max_iterations, iteration_count, continue_execution, pc, exit,
                   messages, next_id, temp_message_content_list, temporary_message,
                   invocations, ops>>
    /\ UNCHANGED <<created, mcpVars, sandboxVars>>

\* a mutant of ShouldStop: web-browser-takeover is not a terminal action
ShouldStopNoTakeover(last) == last \in {"ask", "complete"}

\* run.py 249: the iteration saw a terminal action
ShouldStop(last) == last \in {"ask", "complete", "web-browser-takeover"}

\* run.py 213, 248-251: the stream ends; a terminal action clears continue_execution
StreamEnd ==
    /\ pc = "stream"
    /\ continue_execution' = IF ShouldStop(last_tool_call) THEN FALSE ELSE continue_execution
    /\ pc' = "loop"
    /\ UNCHANGED <<can_run, message, response,
                   max_iterations, iteration_count, exit, messages, next_id,
                   temp_message_content_list, temporary_message, last_tool_call,
                   produced, events, invocations, ops>>
    /\ UNCHANGED <<created, mcpVars, sandboxVars>>

\* an awaited call outside a try block (the thread reads, run_thread, the
\* stream) raises: the exception leaves the generator
ExternalCallRaises ==
    /\ pc \in {"latest", "browser", "image", "invoke", "stream"}
    /\ pc' = "done"
    /\ exit' = "raised"
    /\ UNCHANGED <<can_run, message, response,
                   max_iterations, iteration_count, continue_execution, messages,
                   next_id, temp_message_content_list, temporary_message,
                   last_tool_call, produced, events, invocations, ops>>
    /\ UNCHANGED <<created, mcpVars, sandboxVars>>

\* another process (a tool of the model invocation, the user) adds a message
AppendMessage(m) ==
    /\ pc # "done"
    /\ next_id <= MaxMsgs
    /\ messages' = Append(messages, Message(next_id, m.type, m.content))
    /\ next_id' = next_id + 1
    /\ UNCHANGED <<can_run, message, response,
                   max_iterations, iteration_count, continue_execution, pc, exit,
                   temp_message_content_list, temporary_message, last_tool_call,
                   produced, events, invocations, ops>>
    /\ created' = Append(created, Message(next_id, m.type, m.content))
    /\ UNCHANGED <<mcpVars, sandboxVars>>

\* the steps of the generator, but for the stream's chunks and its end
Resume ==
    \/ \E answer \in BillingAnswers : StartIteration(answer)
    \/ LoopExit
    \/ CheckLatestMessage
    \/ BrowserState
    \/ ImageContext
    \/ \E returned \in Responses : RunThread(returned)

Next ==
    \/ Resume
    \/ \E chunk \in LoopChunks : StreamChunk(chunk)
    \/ StreamEnd
    \/ ExternalCallRaises
    \/ \E m \in EnvMessages : AppendMessage(m)

\* the loop, over the threads and streams of EnvMessages and LoopChunks
Spec == Init /\ [][Next]_vars

\* the consumer keeps resuming the generator, every awaited call returns and
\* every stream ends
FairSpec == Spec /\ WF_vars(Resume) /\ WF_vars(StreamEnd)

NextStream ==
    \/ Resume
    \/ \E chunk \in StreamChunks : StreamChunk(chunk)
    \/ StreamEnd
    \/ ExternalCallRaises
    \/ \E m \in StreamEnvMessages : AppendMessage(m)

\* the loop, over the threads and streams of StreamEnvMessages and StreamChunks
StreamSpec == InitStream /\ [][NextStream]_vars

(***************************************************************************)
(* The properties of the agent loop.  The definitions below read a chunk   *)
(* as the producer of the stream wrote it, not through the loop's parser.  *)
(***************************************************************************)
TerminalNames == {"ask", "complete", "web-browser-takeover"}

\* the chunk is an assistant chunk whose content is a JSON object (as a string
\* or already structured) with a string under 'content'
HasText(chunk) ==
    /\ chunk.type = "assistant"
    /\ chunk.content.form \in {"str", "obj"}
    /\ chunk.content.json.kind = "dict"
    /\ chunk.content.json.inner = "str"

\* the text of such a chunk holds the closing tag of a terminal action
HasClosingMarker(chunk) ==
    /\ HasText(chunk)
    /\ \E name \in TerminalNames : Contains(chunk.content.json.text, CloseTag(name))

StreamHasMarker(stream) == \E i \in 1..Len(stream) : HasClosingMarker(stream[i])

\* the content of an assistant chunk is no JSON, or JSON of an unexpected
\* shape: no object, or an object whose 'content' is no string
Unparsable(chunk) ==
    /\ chunk.type = "assistant"
    /\ chunk.content.form \in {"str", "obj"}
    /\ \/ chunk.content.form = "str" /\ chunk.content.json.kind = "malformed"
       \/ chunk.content.json.kind \in {"list", "null"}
       \/ chunk.content.json.kind = "dict" /\ chunk.content.json.inner = "num"

\* the event a refusal of the billing gate is to yield
BillingRefusal(reason) ==
    [type |-> "status", status |-> "stopped",
     message |-> <<"Billing limit reached: ", reason>>]

EndsWith(text, pat) ==
    /\ Len(text) >= Len(pat)
    /\ SubSeq(text, Len(text) - Len(pat) + 1, Len(text)) = pat

\* the generator has ended: nothing is yielded, read or invoked any more
DoneIsFinal == [][pc = "done" => UNCHANGED vars]_vars

C2_AssistantStops ==
    /\ [][(/\ pc = "latest" /\ pc' # "latest"
           /\ messages # <<>> /\ messages[Len(messages)].type = "assistant")
          => (pc' = "done" /\ invocations' = invocations)]_vars
    /\ DoneIsFinal

C2_Witness ==
    /\ pc = "done" /\ exit = "assistant" /\ ~continue_execution
    /\ iteration_count = 2 /\ invocations = 1
    /\ messages[Len(messages)].type = "assistant"

\* C3: every iteration starts with the billing check; when it refuses, the
\* run yields the one event {type: status, status: stopped} with the reason,
\* makes no other external call (no thread read, no deletion, no model
\* invocation) in that iteration, and ends.
C3_BillingGate ==
    /\ [][iteration_count' # iteration_count
          => /\ ops' = <<"check_billing_status">>
             /\ events' \in {<<>>, <<BillingRefusal(message')>>}]_vars
    /\ [][(pc = "loop" /\ pc' # "loop" /\ iteration_count' # iteration_count /\ ~can_run')
          => /\ events' = <<BillingRefusal(message')>>
             /\ pc' = "done"
             /\ ops' = <<"check_billing_status">>
             /\ messages' = messages
             /\ invocations' = invocations]_vars
    /\ [](pc \in {"latest", "browser", "image", "invoke", "stream"} => can_run)
    /\ DoneIsFinal

C3_Witness ==
    /\ pc = "done" /\ exit = "billing" /\ ~can_run
    /\ iteration_count = 2 /\ invocations = 1
    /\ events = <<BillingRefusal("limit")>>

\* C4: once an assistant chunk of the iteration's stream held a closing
\* terminal marker, no further iteration is started (no billing check) and no
\* model invocation is made, and continue_execution is false when the
\* iteration is over.
C4_MarkerStops ==
    /\ [][StreamHasMarker(produced)
          => /\ StreamHasMarker(produced')
             /\ iteration_count' = iteration_count
             /\ invocations' = invocations
             /\ ops' = ops]_vars
    /\ []((pc = "loop" /\ StreamHasMarker(produced)) => ~continue_execution)

C4_Witness ==
    /\ pc = "done" /\ exit = "returned" /\ ~continue_execution
    /\ iteration_count = 1 /\ max_iterations = 2
    /\ Len(produced) = 2
    /\ HasClosingMarker(produced[1]) /\ ~HasClosingMarker(produced[2])
    /\ Contains(produced[1].content.json.text, CloseTag("web-browser-takeover"))

\* C5: when run_thread returns an error status object, that object is the
\* only event of the iteration and the run has ended; nothing follows.
C5_ErrorStatus ==
    /\ []((response.kind = "dict" /\ response.status = "error")
          => (pc = "done" /\ exit = "error" /\ events = <<response>> /\ produced = <<>>))
    /\ [][(pc = "invoke" /\ pc' = "stream") => response'.kind = "stream"]_vars
    /\ DoneIsFinal

C5_Witness ==
    /\ pc = "done" /\ exit = "error" /\ iteration_count = 2 /\ invocations = 2
    /\ events = <<[kind |-> "dict", status |-> "error", message |-> "llm failed"]>>

\* C6: the model is never invoked more than max_iterations times, and in a
\* run that no billing stop and no error status ended the events of every
\* iteration are the chunks of its stream and nothing else.
C6_HardCap ==
    /\ invocations <= max_iterations
    /\ iteration_count <= max_iterations
    /\ exit \notin {"billing", "error"} => events = produced

C6_Witness ==
    /\ pc = "done" /\ exit = "returned" /\ continue_execution
    /\ max_iterations = MaxIter /\ invocations = MaxIter
    /\ Len(events) = MaxStream

\* C7: every run ends, if the consumer keeps resuming the generator and every
\* stream ends.
C7_Terminates == <>(pc = "done")

C7_Witness ==
    /\ pc = "done" /\ exit = "returned"
    /\ iteration_count = MaxIter /\ Len(produced) = MaxStream
    /\ StreamHasMarker(produced)

\* C8: every chunk the stream produces is yielded as it is, once, in the order
\* produced, whatever its type and content and whatever came before it.
C8_ForwardsAll ==
    /\ [][(pc = "stream" /\ produced' # produced)
          => /\ Len(produced') = Len(produced) + 1
             /\ events' = Append(events, produced'[Len(produced')])]_vars
    /\ [](pc = "stream" => events = produced)

C8_Witness ==
    /\ pc = "stream" /\ Len(produced) = 2 /\ events = produced
    /\ HasClosingMarker(produced[1])
    /\ produced[2].type = "status"

\* C9: an assistant chunk whose content does not parse registers nothing,
\* is yielded, and leaves the loop in the stream; a marker before or after it
\* in the same stream still stops the run.
C9_UnparsableTolerated ==
    /\ [][(pc = "stream" /\ produced' # produced /\ Unparsable(produced'[Len(produced')]))
          => /\ pc' = "stream"
             /\ last_tool_call' = last_tool_call
             /\ events' = Append(events, produced'[Len(produced')])]_vars
    /\ []((pc = "loop" /\ StreamHasMarker(produced)) => ~continue_execution)
    /\ []((pc = "stream" /\ StreamHasMarker(produced)) => last_tool_call \in TerminalNames)

C9_Witness ==
    /\ pc = "done" /\ exit = "returned" /\ ~continue_execution
    /\ Len(produced) = 2
    /\ Unparsable(produced[1]) /\ produced[1].content.json.kind = "malformed"
    /\ HasClosingMarker(produced[2])

\* C10: an assistant chunk whose text ends with </complete> (and holds no
\* other closing marker) registers 'complete'; an assistant chunk whose text
\* holds no closing tag, opening tags or not, registers nothing, and a stream
\* of such chunks leaves continue_execution true.
C10_ClosingOnly ==
    /\ [][(/\ pc = "stream" /\ produced' # produced
           /\ HasText(produced'[Len(produced')])
           /\ EndsWith(produced'[Len(produced')].content.json.text, CloseTag("complete"))
           /\ ~Contains(produced'[Len(produced')].content.json.text, CloseTag("ask")))
          => last_tool_call' = "complete"]_vars
    /\ [][(/\ pc = "stream" /\ produced' # produced
           /\ ~HasClosingMarker(produced'[Len(produced')]))
          => last_tool_call' = last_tool_call]_vars
    /\ []((pc = "loop" /\ ~StreamHasMarker(produced)) => continue_execution)

C10_Witness ==
    /\ pc = "stream" /\ Len(produced) = 2 /\ last_tool_call = "complete"
    /\ HasText(produced[1]) /\ produced[1].content.json.text = TextOpeningOnly
    /\ HasText(produced[2])
    /\ EndsWith(produced[2].content.json.text, CloseTag("complete"))

(***************************************************************************)
(* Streams whose chunks hold several closing tags, and closing tags in     *)
(* chunks that are no assistant chunks.                                    *)
(***************************************************************************)
TextCompleteThenAsk ==
    OpenTag("complete") \o CloseTag("complete") \o <<"x">> \o CloseTag("ask")

TextTakeoverThenComplete == CloseTag("web-browser-takeover") \o CloseTag("complete")

TextTakeoverCompleteAsk ==
    CloseTag("web-browser-takeover") \o <<"x">> \o CloseTag("complete") \o CloseTag("ask")

TextAskThenTakeover == CloseTag("ask") \o <<"x">> \o CloseTag("web-browser-takeover")

\* the chunks a model stream is drawn from when the detection is what is checked
DetectChunks ==
    { Chunk("assistant", "str", Json("dict", "str", TextCompleteThenAsk)),
      Chunk("assistant", "str", Json("dict", "str", TextTakeoverThenComplete)),
      Chunk("assistant", "obj", Json("dict", "str", TextTakeoverCompleteAsk)),
      Chunk("assistant", "str", Json("dict", "str", TextAskThenTakeover)),
      Chunk("assistant", "str", Json("dict", "str", TextOpeningOnly)),
      Chunk("tool", "str", Json("dict", "str", TextAsk)),
      Chunk("status", "str", Json("dict", "str", TextTakeover)) }

NextDetect ==
    \/ Resume
    \/ \E chunk \in DetectChunks : StreamChunk(chunk)
    \/ StreamEnd
    \/ ExternalCallRaises
    \/ \E m \in StreamEnvMessages : AppendMessage(m)

\* the loop, over the threads and streams of StreamEnvMessages and DetectChunks
DetectSpec == InitStream /\ [][NextDetect]_vars

\* the terminal actions whose closing tag the text of a chunk holds
MarkersIn(chunk) ==
    {name \in TerminalNames : Contains(chunk.content.json.text, CloseTag(name))}

\* the action of highest priority among some: ask, complete, web-browser-takeover
PriorityPick(names) ==
    IF "ask" \in names THEN "ask"
    ELSE IF "complete" \in names THEN "complete"
    ELSE "web-browser-takeover"

\* C11: when the text of an assistant chunk holds the closing tags of more than
\* one terminal action, the action recorded for the chunk is the one of highest
\* priority (ask, then complete, then web-browser-takeover), wherever the tags
\* stand in the text.
C11_FixedPriority ==
    [][\A chunk \in DetectChunks :
          (/\ pc = "stream"
           /\ produced' = Append(produced, chunk)
           /\ HasText(chunk)
           /\ Cardinality(MarkersIn(chunk)) > 1)
          => last_tool_call' = PriorityPick(MarkersIn(chunk))]_vars

\* a chunk with </complete> before </ask> was the last one and recorded ask
C11_Witness ==
    /\ pc = "stream"
    /\ Len(produced) > 0
    /\ produced[Len(produced)].content.json.text = TextCompleteThenAsk
    /\ HasText(produced[Len(produced)])
    /\ FirstAt(TextCompleteThenAsk, CloseTag("complete"))
           < FirstAt(TextCompleteThenAsk, CloseTag("ask"))
    /\ last_tool_call = "ask"

\* C12: a chunk whose type is not 'assistant' leaves the recorded action as it
\* was, whatever its content holds, and a stream in which only such chunks hold
\* closing tags does not stop the loop.
C12_AssistantOnly ==
    /\ [][\A chunk \in DetectChunks :
             (/\ pc = "stream"
              /\ produced' = Append(produced, chunk)
              /\ chunk.type # "assistant")
             => last_tool_call' = last_tool_call]_vars
    /\ [][(/\ pc = "stream" /\ pc' = "loop"
            /\ \A i \in 1..Len(produced) :
                   produced[i].type = "assistant" => MarkersIn(produced[i]) = {})
           => (last_tool_call' = "None" /\ continue_execution' = continue_execution)]_vars

\* a stream of a tool chunk and a status chunk, both with closing tags, has
\* ended and the loop goes on
C12_Witness ==
    /\ pc = "loop"
    /\ continue_execution
    /\ iteration_count < max_iterations
    /\ last_tool_call = "None"
    /\ \E i, j \in 1..Len(produced) :
           /\ produced[i].type = "tool" /\ MarkersIn(produced[i]) # {}
           /\ produced[j].type = "status" /\ MarkersIn(produced[j]) # {}

(***************************************************************************)
(* Context assembly.  The thread of a run starts with up to two ephemeral  *)
(* messages (browser_state, image_context), well formed or not; the other  *)
(* processes append conversation messages only.                            *)
(***************************************************************************)
BrowserWithScreenshot == Content("dict", [screenshot_base64 |-> "AAA", mapX |-> "1"])

BrowserWithoutScreenshot == Content("dict", [screenshot_url |-> "http://s", mapX |-> "2"])

ImageWellFormed ==
    Content("dict", [base64 |-> "BBB", mime_type |-> "image/png", file_path |-> "a.png"])

\* a content json.loads raises on
Malformed == Content("malformed", EmptyDict)

\* the ephemeral messages a thread starts with when the context is what is checked
CtxMessages ==
    { [type |-> "browser_state", content |-> BrowserWithScreenshot],
      [type |-> "browser_state", content |-> BrowserWithoutScreenshot],
      [type |-> "browser_state", content |-> Malformed],
      [type |-> "image_context", content |-> ImageWellFormed],
      [type |-> "image_context", content |-> Malformed] }

\* the threads such a run starts on: no, one or two of these messages
CtxThreads ==
    {<<>>} \cup {Thread(<<m>>, 1) : m \in CtxMessages}
           \cup {Thread(<<m, n>>, 1) : m \in CtxMessages, n \in CtxMessages}

\* the messages the other processes append, and the chunks of the streams
CtxEnvMessages == { [type |-> "user", content |-> PlainContent] }

CtxChunks == { Chunk("assistant", "str", Json("dict", "str", TextOpeningOnly)) }

InitCtx == InitOver(CtxThreads)

NextCtx ==
    \/ Resume
    \/ \E chunk \in CtxChunks : StreamChunk(chunk)
    \/ StreamEnd
    \/ ExternalCallRaises
    \/ \E m \in CtxEnvMessages : AppendMessage(m)

\* the loop, over the threads of CtxThreads
CtxSpec == InitCtx /\ [][NextCtx]_vars

(***************************************************************************)
(* The properties of context assembly.                                     *)
(***************************************************************************)
Ephemeral == {"browser_state", "image_context"}

\* the rows of msgs of one type, and the one created last among them
OfType(msgs, type) == {i \in 1..Len(msgs) : msgs[i].type = type}

LatestOfType(msgs, type) ==
    msgs[CHOOSE i \in OfType(msgs, type) : \A j \in OfType(msgs, type) : j <= i]

\* the step of an iteration that fetches the latest message of a type
Fetches(type) ==
    IF type = "browser_state" THEN pc = "browser" /\ pc' = "image"
    ELSE pc = "image" /\ pc' = "invoke"

\* the message of that id is a row of msgs
Present(msgs, id) == \E i \in 1..Len(msgs) : msgs[i].message_id = id

\* C13: the step that fetches the latest browser_state (or image_context)
\* message leaves the thread without that message, whatever its content is.
C13_DeletedWhenFetched ==
    [][\A type \in Ephemeral :
          (Fetches(type) /\ OfType(messages, type) # {})
          => ~Present(messages', LatestOfType(messages, type).message_id)]_vars

\* C14: a message that is turned into blocks (its blocks are added to the list
\* and it is deleted) is the last one of its type ever created in the thread.
C14_NeverStale ==
    [][\A type \in Ephemeral : \A i \in OfType(messages, type) :
          (/\ Fetches(type)
           /\ ~Present(messages', messages[i].message_id)
           /\ Len(temp_message_content_list') > Len(temp_message_content_list))
          => \A j \in OfType(created, type) :
                 created[j].message_id <= messages[i].message_id]_vars

\* the blocks a well-formed browser_state content is to yield: the state but
\* for its screenshot fields as text, and the screenshot as a JPEG data URL
ScreenshotFields == {"screenshot_base64", "screenshot_url"}

StateBlock(dict) ==
    [type |-> "text",
     text |-> <<"The following is the current state of the browser:",
                [k \in (DOMAIN dict) \ ScreenshotFields |-> dict[k]]>>,
     url |-> <<>>]

ScreenshotBlock(dict) ==
    [type |-> "image_url", text |-> <<>>,
     url |-> <<"data:image/jpeg;base64,", dict["screenshot_base64"]>>]

ExpectedBrowserBlocks(dict) ==
    <<StateBlock(dict)>>
    \o (IF "screenshot_base64" \in DOMAIN dict THEN <<ScreenshotBlock(dict)>> ELSE <<>>)

\* the blocks a well-formed image_context content is to yield
ExpectedImageBlocks(dict) ==
    << [type |-> "text",
        text |-> <<"Here is the image you requested to see: ", dict["file_path"]>>,
        url |-> <<>>],
       [type |-> "image_url", text |-> <<>>,
        url |-> <<"data:", dict["mime_type"], ";base64,", dict["base64"]>>] >>

\* a browser_state content with state fields, an image_context content with
\* its payload
WellFormedBrowser(content) ==
    content.kind = "dict" /\ (DOMAIN content.dict) \ ScreenshotFields # {}

WellFormedImage(content) ==
    content.kind = "dict" /\ {"base64", "mime_type", "file_path"} \subseteq DOMAIN content.dict

\* the thread started with a well-formed browser_state message followed by a
\* well-formed image_context message, and no other such message was created
BrowserThenImage ==
    /\ Len(created) >= 2
    /\ created[1].type = "browser_state" /\ WellFormedBrowser(created[1].content)
    /\ created[2].type = "image_context" /\ WellFormedImage(created[2].content)
    /\ \A j \in 3..Len(created) : created[j].type \notin Ephemeral

\* C15: on such a thread the first iteration (the first to reach context
\* assembly: an iteration that does not reach it ends the run) invokes the
\* model with one temporary message made of the blocks of both messages, both
\* messages are gone from the thread once it has assembled the context, and no
\* later iteration has a temporary message.
C15_BothOnce ==
    BrowserThenImage =>
        /\ (iteration_count = 1 /\ pc \in {"invoke", "stream"})
           => temporary_message =
                 << [role |-> "user",
                     content |-> ExpectedBrowserBlocks(created[1].content.dict)
                                 \o ExpectedImageBlocks(created[2].content.dict)] >>
        /\ ((iteration_count = 1 /\ pc \in {"invoke", "stream", "loop"})
               \/ iteration_count > 1)
           => (~Present(messages, 1) /\ ~Present(messages, 2))
        /\ (iteration_count > 1 /\ pc \in {"invoke", "stream"})
           => temporary_message = <<>>

\* the model is being invoked in iteration 1 with the four blocks of the two
\* messages, which are gone
C15_Witness ==
    /\ BrowserThenImage
    /\ iteration_count = 1 /\ pc = "stream"
    /\ Len(temporary_message) = 1
    /\ Len(temporary_message[1].content) = 4
    /\ messages = <<>>

ModelInvoked == ENABLED (\E returned \in Responses : RunThread(returned))

\* C17: when the latest browser_state content fails to parse and the latest
\* image_context message is well formed, the temporary message of the iteration
\* is made of the blocks of the image_context message; when the browser_state
\* message gave its blocks and the latest image_context content fails to parse,
\* the temporary message is made of the browser blocks; the model is invoked
\* next in both cases.
C17_FailureIsLocal ==
    /\ [][(/\ Fetches("image_context")
            /\ OfType(messages, "image_context") # {}
            /\ WellFormedImage(LatestOfType(messages, "image_context").content)
            /\ OfType(messages, "browser_state") # {}
            /\ LatestOfType(messages, "browser_state").content.kind # "dict")
           => temporary_message' =
                 << [role |-> "user",
                     content |-> ExpectedImageBlocks(
                         LatestOfType(messages, "image_context").content.dict)] >>]_vars
    /\ [][(/\ Fetches("image_context")
            /\ OfType(messages, "image_context") # {}
            /\ LatestOfType(messages, "image_context").content.kind # "dict"
            /\ temp_message_content_list # <<>>)
           => /\ temporary_message' =
                    <<[role |-> "user", content |-> temp_message_content_list]>>
              /\ \E j \in OfType(created, "browser_state") :
                    /\ WellFormedBrowser(created[j].content)
                    /\ temp_message_content_list =
                          ExpectedBrowserBlocks(created[j].content.dict)]_vars
    /\ [](pc = "invoke" => ModelInvoked)

\* the model has been invoked with the blocks of the image_context message
\* while the browser_state message that failed to parse is still in the thread
C17_Witness ==
    /\ pc = "stream"
    /\ invocations = 1
    /\ OfType(messages, "browser_state") # {}
    /\ LatestOfType(messages, "browser_state").content = Malformed
    /\ temporary_message =
          <<[role |-> "user", content |-> ExpectedImageBlocks(ImageWellFormed.dict)]>>

\* C18: on a thread in which no browser_state and no image_context message was
\* ever created, context assembly leaves temporary_message None and deletes
\* nothing, and the model is invoked with no temporary message; the run has
\* not ended with an error.
C18_NothingInjected ==
    (/\ pc \in {"invoke", "stream"}
     /\ \A j \in 1..Len(created) : created[j].type \notin Ephemeral)
    => /\ temporary_message = <<>>
       /\ temp_message_content_list = <<>>
       /\ messages = created
       /\ \A i \in 1..Len(ops) : ops[i] # "delete_message"
       /\ exit = "running"
       /\ pc = "invoke" => ModelInvoked

\* the model has been invoked on a thread of conversation messages only
C18_Witness ==
    /\ pc = "stream"
    /\ invocations >= 1
    /\ created # <<>>
    /\ \A j \in 1..Len(created) : created[j].type \notin Ephemeral
    /\ messages = created
    /\ temporary_message = <<>>

(***************************************************************************)
(* The MCP manager.  A call of connect_server or connect_all is a          *)
(* coroutine: it runs from one await to the next without interruption, and *)
(* at an await the coroutines of other callers may run.                    *)
(***************************************************************************)
\* the calls started in one behaviour
MaxCalls == 3

loopVars == <<max_iterations, iteration_count, continue_execution, pc, exit, can_run,
              message, response, messages, next_id, temp_message_content_list,
              temporary_message, last_tool_call,
              produced, events, invocations, ops, created>>

\* the configurations of the servers; enabledTools may be missing
McpConfigs ==
    { [qualifiedName |-> "exa", name |-> "Exa", config |-> [exaApiKey |-> "k"],
       enabledTools |-> <<"search">>],
      [qualifiedName |-> "a_b", name |-> "AB", config |-> EmptyDict] }

\* the lists given to connect_all: no, one or two configurations
McpConfigLists ==
    {<<>>} \cup {<<cfg>> : cfg \in McpConfigs}
           \cup {<<cfg, other>> : cfg \in McpConfigs, other \in McpConfigs}

\* what session.list_tools() answers
Tool(name, description) == [name |-> name, description |-> description]

ToolLists == { <<Tool("search", "web search"), Tool("crawl", "None")>> }

\* client.py 112-119: the MCPConnection of a configuration and its tools; id is
\* the identity of the object
MCPConnection(mcp_config, tools, id) ==
    [qualified_name |-> mcp_config.qualifiedName,
     name |-> mcp_config.name,
     config |-> mcp_config.config,
     enabled_tools |-> GetOr(mcp_config, "enabledTools", <<>>),
     session |-> "None",
     tools |-> tools,
     id |-> id]

\* client.py 121: self.connections[qualified_name] = connection
Store(conns, qualified_name, connection) ==
    [q \in (DOMAIN conns) \cup {qualified_name} |->
        IF q = qualified_name THEN connection ELSE conns[q]]

\* client.py 87, 122 and 130-132: connect_server returns connection; inside
\* connect_all the loop goes on to the next configuration
AfterReturn(cl, connection, how) ==
    IF cl.op = "connect_all"
    THEN [cl EXCEPT !.pc = "check", !.idx = @ + 1, !.outcomes = Append(@, how)]
    ELSE [cl EXCEPT !.pc = "returned", !.result = <<connection>>,
                    !.outcomes = Append(@, how)]

\* a mutant of AfterRaise: connect_all lets the exception through
AfterRaisePropagates(cl) ==
    [cl EXCEPT !.pc = "raised", !.outcomes = Append(@, "failed")]

\* a mutant of AfterRaise: connect_server swallows the exception and returns None
AfterRaiseSwallows(cl) ==
    IF cl.op = "connect_all"
    THEN [cl EXCEPT !.pc = "check", !.idx = @ + 1, !.outcomes = Append(@, "failed")]
    ELSE [cl EXCEPT !.pc = "returned", !.outcomes = Append(@, "failed")]

\* client.py 92, 124-126 and 133-134: connect_server raises; inside connect_all
\* the exception is logged and the loop goes on to the next configuration
AfterRaise(cl) ==
    IF cl.op = "connect_all"
    THEN [cl EXCEPT !.pc = "check", !.idx = @ + 1, !.outcomes = Append(@, "failed")]
    ELSE [cl EXCEPT !.pc = "raised", !.outcomes = Append(@, "failed")]

\* a caller that is in no call calls connect_server(mcp_config)
CallConnectServer(c, mcp_config) ==
    /\ call[c].pc \in {"idle", "returned", "raised"}
    /\ calls < MaxCalls
    /\ calls' = calls + 1
    /\ call' = [call EXCEPT ![c] = [op |-> "connect_server", pc |-> "check",
                                    configs |-> <<mcp_config>>, idx |-> 1,
                                    result |-> <<>>, outcomes |-> <<>>]]
    /\ UNCHANGED <<SMITHERY_API_KEY, connections, opened, objects, loopVars, wrapperVars, sandboxVars>>

\* a caller that is in no call calls connect_all(mcp_configs)
CallConnectAll(c, mcp_configs) ==
    /\ call[c].pc \in {"idle", "returned", "raised"}
    /\ calls < MaxCalls
    /\ calls' = calls + 1
    /\ call' = [call EXCEPT ![c] = [op |-> "connect_all", pc |-> "check",
                                    configs |-> mcp_configs, idx |-> 1,
                                    result |-> <<>>, outcomes |-> <<>>]]
    /\ UNCHANGED <<SMITHERY_API_KEY, connections, opened, objects, loopVars, wrapperVars, sandboxVars>>

\* client.py 83-95: the cache is looked up, then the API key; a cached
\* connection is returned, a missing key raises, otherwise the coroutine goes
\* on to the handshake and awaits
ConnectServerCheck(c) ==
    /\ call[c].pc = "check"
    /\ call[c].idx <= Len(call[c].configs)
    /\ LET qualified_name == call[c].configs[call[c].idx].qualifiedName
       IN  call' = [call EXCEPT ![c] =
                IF qualified_name \in DOMAIN connections
                THEN AfterReturn(call[c], connections[qualified_name], "cached")
                ELSE IF ~Truthy(SMITHERY_API_KEY) THEN AfterRaise(call[c])
                ELSE [call[c] EXCEPT !.pc = "handshake"]]
    /\ UNCHANGED <<SMITHERY_API_KEY, connections, opened, objects, calls, loopVars, wrapperVars, sandboxVars>>

\* client.py 97-126: the transport is opened, the session initialized and the
\* tools listed; if all of it succeeded the connection is constructed, stored
\* under its qualified name and returned, otherwise the exception is raised
ConnectServerHandshake(c, succeeded, tools) ==
    /\ call[c].pc = "handshake"
    /\ LET mcp_config == call[c].configs[call[c].idx]
           qualified_name == mcp_config.qualifiedName
           connection == MCPConnection(mcp_config, tools, objects + 1)
       IN  /\ opened' = [opened EXCEPT ![qualified_name] = @ + 1]
           /\ IF succeeded
              THEN /\ objects' = objects + 1
                   /\ connections' = Store(connections, qualified_name, connection)
                   /\ call' = [call EXCEPT ![c] =
                                  AfterReturn(call[c], connection, "connected")]
              ELSE /\ call' = [call EXCEPT ![c] = AfterRaise(call[c])]
                   /\ UNCHANGED <<objects, connections>>
    /\ UNCHANGED <<SMITHERY_API_KEY, calls, loopVars, wrapperVars, sandboxVars>>

\* client.py 130: the list is exhausted, connect_all returns None
ConnectAllReturn(c) ==
    /\ call[c].op = "connect_all"
    /\ call[c].pc = "check"
    /\ call[c].idx > Len(call[c].configs)
    /\ call' = [call EXCEPT ![c].pc = "returned"]
    /\ UNCHANGED <<SMITHERY_API_KEY, connections, opened, objects, calls, loopVars, wrapperVars, sandboxVars>>

\* no run of the loop beside the manager; the API key is set or not
InitMcp ==
    /\ LoopInit({<<>>})
    /\ max_iterations = 0
    /\ ManagerInit({"None", "sk"})
    /\ NoSandboxes

NextMcp ==
    \/ \E c \in Callers, mcp_config \in McpConfigs : CallConnectServer(c, mcp_config)
    \/ \E c \in Callers, mcp_configs \in McpConfigLists :
           CallConnectAll(c, mcp_configs)
    \/ \E c \in Callers : ConnectServerCheck(c)
    \/ \E c \in Callers, succeeded \in BOOLEAN, tools \in ToolLists :
           ConnectServerHandshake(c, succeeded, tools)
    \/ \E c \in Callers : ConnectAllReturn(c)

\* the manager, called by the coroutines of Callers
McpSpec == InitMcp /\ [][NextMcp]_vars

(***************************************************************************)
(* The properties of the MCP manager.                                      *)
(***************************************************************************)
\* the caller is in, or has left, a call of connect_server for that server
ConnectsTo(c, qualified_name) ==
    /\ call[c].op = "connect_server"
    /\ call[c].configs[1].qualifiedName = qualified_name

\* C19: when connect_server was called twice for one qualified name, by two
\* callers whose calls may overlap, and both calls have returned, then one
\* transport was opened to that server and both calls returned the same
\* MCPConnection object.
C19_OneHandshake ==
    \A c1, c2 \in Callers : \A q \in QualifiedNames :
        (/\ c1 # c2
         /\ calls = 2
         /\ ConnectsTo(c1, q) /\ call[c1].pc = "returned"
         /\ ConnectsTo(c2, q) /\ call[c2].pc = "returned")
        => (opened[q] = 1 /\ call[c1].result = call[c2].result)

\* C20: a call of connect_all never ends by raising; it has dealt with the
\* configurations before the current one in order, one outcome each, a failure
\* being logged and followed by the next configuration; when it has returned
\* every configuration of the list was attempted and every one whose connect
\* succeeded (connected, or found in the cache) is in the cache.
C20_ConnectAll ==
    \A c \in Callers :
        call[c].op = "connect_all"
        => /\ call[c].pc # "raised"
           /\ Len(call[c].outcomes) = call[c].idx - 1
           /\ call[c].pc = "returned"
              => /\ Len(call[c].outcomes) = Len(call[c].configs)
                 /\ \A i \in 1..Len(call[c].configs) :
                       call[c].outcomes[i] \in {"connected", "cached"}
                       => call[c].configs[i].qualifiedName \in DOMAIN connections

\* connect_all has returned from a list of two servers: connecting to the
\* first failed, the second was attempted all the same and is in the cache
C20_Witness ==
    \E c \in Callers :
        /\ call[c].op = "connect_all"
        /\ call[c].pc = "returned"
        /\ call[c].outcomes = <<"failed", "connected">>
        /\ call[c].configs[1].qualifiedName \notin DOMAIN connections
        /\ call[c].configs[2].qualifiedName \in DOMAIN connections
        /\ opened[call[c].configs[1].qualifiedName] = 1

\* the server a call of connect_server is for
ServerOf(c) == call[c].configs[1].qualifiedName

\* C21: when the handshake of a connect_server call fails (no connection is
\* constructed) the call ends by raising and the cache is as it was; and a
\* connect_server call that finds no entry for its server in the cache (and an
\* API key) goes on to a handshake of its own, which opens a transport.
C21_FailureRaised ==
    /\ [][\A c \in Callers :
             (/\ call[c].op = "connect_server" /\ call[c].pc = "handshake"
              /\ call'[c] # call[c]
              /\ objects' = objects)
             => (call'[c].pc = "raised" /\ connections' = connections)]_vars
    /\ [][\A c \in Callers :
             (/\ call[c].op = "connect_server" /\ call[c].pc = "check"
              /\ call'[c] # call[c]
              /\ ServerOf(c) \notin DOMAIN connections
              /\ SMITHERY_API_KEY # "None")
             => call'[c].pc = "handshake"]_vars
    /\ [][\A c \in Callers :
             (/\ call[c].op = "connect_server" /\ call[c].pc = "handshake"
              /\ call'[c] # call[c])
             => opened'[ServerOf(c)] = opened[ServerOf(c)] + 1]_vars

\* one caller called connect_server twice for one server: the first call
\* failed and left no entry, the second made a handshake of its own
C21_Witness ==
    \E c \in Callers :
        /\ calls = 2
        /\ \A d \in Callers \ {c} : call[d] = NoCall
        /\ call[c].op = "connect_server" /\ call[c].pc = "returned"
        /\ call[c].outcomes = <<"connected">>
        /\ opened[ServerOf(c)] = 2
        /\ objects = 1

(***************************************************************************)
(* Tool identifiers, tool execution and the tool list.  A name is the      *)
(* sequence of its segments, the pieces between its underscores: "a_b" is  *)
(* <<"a", "b">>, and joining two names with "_" is concatenation.          *)
(***************************************************************************)
Segments(name) ==
    CASE name = "a_b" -> <<"a", "b">>
      [] name = "web_search" -> <<"web", "search">>
      [] OTHER -> <<name>>

\* a mutant of ToolId: the identifier has no prefix
ToolIdNoPrefix(qualified_name, name) == Segments(qualified_name) \o Segments(name)

\* client.py 151: f"mcp_{conn.qualified_name}_{tool.name}"
ToolId(qualified_name, name) == <<"mcp">> \o Segments(qualified_name) \o Segments(name)

\* a mutant of SplitTwice: the name is split at every underscore
SplitEvery(tool_name) == [i \in 1..Len(tool_name) |-> <<tool_name[i]>>]

\* client.py 174: tool_name.split("_", 2), each part a name
SplitTwice(tool_name) ==
    IF Len(tool_name) >= 3
    THEN << <<tool_name[1]>>, <<tool_name[2]>>, SubSeq(tool_name, 3, Len(tool_name)) >>
    ELSE [i \in 1..Len(tool_name) |-> <<tool_name[i]>>]

\* a mutant of ValidParts: the first part is not looked at
ValidPartsAnyPrefix(parts) == Len(parts) = 3

\* client.py 175: the parts are those of a tool identifier
ValidParts(parts) == Len(parts) = 3 /\ parts[1] = <<"mcp">>

\* client.py 180-183: the keys of the cache that are the name qualified_name
Lookup(conns, qualified_name) == {q \in DOMAIN conns : Segments(q) = qualified_name}

\* Python's str() of a value that is no string
Str(value) == <<"str", value>>

\* "\n".join(text_parts): the parts, a text each, with "\n" between them
RECURSIVE JoinLines(_)
JoinLines(text_parts) ==
    IF text_parts = <<>> THEN <<>>
    ELSE IF Len(text_parts) = 1 THEN <<text_parts[1]>>
    ELSE <<text_parts[1], <<"\n">> >> \o JoinLines(Tail(text_parts))

\* client.py 205-210: the text of one item of a result's content
ItemText(item) ==
    IF item.kind = "text" THEN item.value
    ELSE IF item.kind = "content" THEN Str(item.value)
    ELSE Str(item)

\* client.py 200-222: the dict returned for what session.call_tool returned;
\* its isError attribute is "True", "False" or "absent"
ToolResult(result) ==
    IF result.content.form = "absent"
    THEN [content |-> <<Str(result)>>, isError |-> FALSE]
    ELSE [content |-> IF result.content.form = "list"
                      THEN JoinLines([i \in 1..Len(result.content.items) |->
                                         ItemText(result.content.items[i])])
                      ELSE <<Str(result.content.items)>>,
          isError |-> result.isError = "True"]

\* a mutant of ToolError: the dict of an exception is not flagged as an error
ToolErrorNotFlagged(reason) ==
    [content |-> << <<"Error executing tool: ">>, <<reason>> >>, isError |-> FALSE]

\* client.py 224-229: the dict returned for an exception
ToolError(reason) ==
    [content |-> << <<"Error executing tool: ">>, <<reason>> >>, isError |-> TRUE]

Item(kind, value) == [kind |-> kind, value |-> value]

CallToolResult(form, items, isError) ==
    [content |-> [form |-> form, items |-> items], isError |-> isError]

\* what opening the transport, initializing the session and calling the tool
\* come to: an exception of one of the three, or the result of call_tool
ToolOutcomes ==
    { [kind |-> "raise", at |-> "connect", reason |-> "connection refused"],
      [kind |-> "raise", at |-> "initialize", reason |-> "handshake failed"],
      [kind |-> "raise", at |-> "call_tool", reason |-> "tool failed"],
      [kind |-> "result", at |-> "call_tool",
       result |-> CallToolResult("list", <<Item("text", <<"a">>), Item("content", "b")>>,
                                 "absent")],
      [kind |-> "result", at |-> "call_tool",
       result |-> CallToolResult("list", <<Item("text", <<"boom">>)>>, "True")],
      [kind |-> "result", at |-> "call_tool",
       result |-> CallToolResult("absent", <<>>, "absent")] }

\* the call a caller of execute_tool is in
ExecuteCall(tool_name, at, error, conn, original_tool_name) ==
    [op |-> "execute_tool", pc |-> at, configs |-> <<>>, idx |-> 0,
     result |-> <<>>, outcomes |-> <<>>, tool_name |-> tool_name, error |-> error,
     conn |-> conn, original_tool_name |-> original_tool_name]

\* a mutant of ExecuteToolEntered: the API key is not tested
ExecuteToolEnteredKeyless(tool_name, conns, key) ==
    LET parts == SplitTwice(tool_name)
    IN  IF ~ValidParts(parts)
        THEN ExecuteCall(tool_name, "raised", "Invalid MCP tool name format", <<>>, <<>>)
        ELSE IF Lookup(conns, parts[2]) = {}
        THEN ExecuteCall(tool_name, "raised", "not connected", <<>>, parts[3])
        ELSE ExecuteCall(tool_name, "transport", "None",
                         <<conns[CHOOSE q \in Lookup(conns, parts[2]) : TRUE]>>, parts[3])

\* client.py 174-187: execute_tool up to its first await: the identifier is
\* split and validated, the connection looked up and the API key tested
ExecuteToolEntered(tool_name, conns, key) ==
    LET parts == SplitTwice(tool_name)
    IN  IF ~ValidParts(parts)
        THEN ExecuteCall(tool_name, "raised", "Invalid MCP tool name format", <<>>, <<>>)
        ELSE IF Lookup(conns, parts[2]) = {}
        THEN ExecuteCall(tool_name, "raised", "not connected", <<>>, parts[3])
        ELSE IF ~Truthy(key)
        THEN ExecuteCall(tool_name, "raised", "SMITHERY_API_KEY is not set", <<>>,
                         parts[3])
        ELSE ExecuteCall(tool_name, "transport", "None",
                         <<conns[CHOOSE q \in Lookup(conns, parts[2]) : TRUE]>>, parts[3])

\* a caller that is in no call calls execute_tool(tool_name, arguments), which
\* runs up to its first await
ExecuteToolStart(c, tool_name) ==
    /\ call[c].pc \in {"idle", "returned", "raised"}
    /\ calls < MaxCalls
    /\ calls' = calls + 1
    /\ call' = [call EXCEPT ![c] =
                   ExecuteToolEntered(tool_name, connections, SMITHERY_API_KEY)]
    /\ UNCHANGED <<SMITHERY_API_KEY, connections, opened, objects, loopVars, wrapperVars, sandboxVars>>

\* a mutant of ExecuteToolTransport: no transport is opened for the call
ExecuteToolTransportReused(c, outcome) ==
    /\ call[c].op = "execute_tool"
    /\ call[c].pc = "transport"
    /\ call' = [call EXCEPT ![c].pc = "returned",
                            ![c].outcomes = <<outcome>>,
                            ![c].result =
                                IF outcome.kind = "raise" THEN <<ToolError(outcome.reason)>>
                                ELSE <<ToolResult(outcome.result)>>]
    /\ UNCHANGED <<SMITHERY_API_KEY, connections, opened, objects, calls, loopVars,
                   wrapperVars, sandboxVars>>

\* client.py 189-229: a transport of its own is opened with the configuration
\* of the connection, the session initialized and the tool called; the result
\* is converted to a dict, and so is any exception
ExecuteToolTransport(c, outcome) ==
    /\ call[c].op = "execute_tool"
    /\ call[c].pc = "transport"
    /\ opened' = [opened EXCEPT ![call[c].conn[1].qualified_name] = @ + 1]
    /\ call' = [call EXCEPT ![c].pc = "returned",
                            ![c].outcomes = <<outcome>>,
                            ![c].result =
                                IF outcome.kind = "raise" THEN <<ToolError(outcome.reason)>>
                                ELSE <<ToolResult(outcome.result)>>]
    /\ UNCHANGED <<SMITHERY_API_KEY, connections, objects, calls, loopVars, wrapperVars, sandboxVars>>

\* a mutant of DisconnectAll: the cache is left as it is
DisconnectAllKeeps(c) ==
    /\ call[c].pc \in {"idle", "returned", "raised"}
    /\ calls < MaxCalls
    /\ calls' = calls + 1
    /\ call' = [call EXCEPT ![c] = [NoCall EXCEPT !.op = "disconnect_all",
                                                  !.pc = "returned"]]
    /\ UNCHANGED <<SMITHERY_API_KEY, connections, opened, objects, loopVars, wrapperVars, sandboxVars>>

\* client.py 231-235: disconnect_all clears the cache; it has no await
DisconnectAll(c) ==
    /\ call[c].pc \in {"idle", "returned", "raised"}
    /\ calls < MaxCalls
    /\ calls' = calls + 1
    /\ connections' = EmptyDict
    /\ call' = [call EXCEPT ![c] = [NoCall EXCEPT !.op = "disconnect_all",
                                                  !.pc = "returned"]]
    /\ UNCHANGED <<SMITHERY_API_KEY, opened, objects, loopVars, wrapperVars, sandboxVars>>

\* a mutant of Enabled: the allow-list is not looked at
EnabledAlways(conn, tool) == TRUE

\* client.py 147: the tool passes the allow-list of its connection
Enabled(conn, tool) ==
    ~(/\ conn.enabled_tools # <<>>
      /\ \A i \in 1..Len(conn.enabled_tools) : conn.enabled_tools[i] # tool.name)

\* an input schema: None, a dict, or a non-empty list, which is no mapping
Schema(kind, dict) == [kind |-> kind, dict |-> dict]

\* Python's truth value of an input schema
SchemaTruthy(schema) ==
    /\ schema.kind # "None"
    /\ ~(schema.kind = "dict" /\ DOMAIN schema.dict = {})

\* a tool that has the attribute inputSchema
ToolWithSchema(name, description, inputSchema) ==
    [name |-> name, description |-> description, inputSchema |-> inputSchema]

\* a mutant of Parameters: the input schema is not looked at
ParametersEmpty(tool) ==
    [type |-> "object", properties |-> EmptyDict, required |-> <<>>]

\* client.py 153-164: the parameters of a tool, from its input schema if it
\* has one that is truthy and a dict
Parameters(tool) ==
    IF /\ "inputSchema" \in DOMAIN tool
       /\ SchemaTruthy(tool.inputSchema)
       /\ tool.inputSchema.kind = "dict"
    THEN [type |-> "object",
          properties |-> GetOr(tool.inputSchema.dict, "properties", EmptyDict),
          required |-> GetOr(tool.inputSchema.dict, "required", <<>>)]
    ELSE [type |-> "object", properties |-> EmptyDict, required |-> <<>>]

\* client.py 150-158: the entry of one tool of one connection
OpenapiTool(conn, tool) ==
    [name |-> ToolId(conn.qualified_name, tool.name),
     description |-> IF Truthy(tool.description) THEN <<tool.description>>
                     ELSE <<"MCP tool from ", conn.name>>,
     parameters |-> Parameters(tool)]

\* client.py 136-168: the list get_all_tools_openapi returns, as the number of
\* times each entry is in it
AllToolsOpenapi(conns) ==
    LET passing == UNION { { <<q, i>> : i \in {j \in 1..Len(conns[q].tools) :
                                                  Enabled(conns[q], conns[q].tools[j])} } :
                           q \in DOMAIN conns }
        entry(pr) == OpenapiTool(conns[pr[1]], conns[pr[1]].tools[pr[2]])
    IN  [e \in {entry(pr) : pr \in passing} |->
            Cardinality({pr \in passing : entry(pr) = e})]

\* client.py 136-168: get_all_tools_openapi; it has no await
GetAllToolsOpenapi(c) ==
    /\ call[c].pc \in {"idle", "returned", "raised"}
    /\ calls < MaxCalls
    /\ calls' = calls + 1
    /\ call' = [call EXCEPT ![c] = [NoCall EXCEPT !.op = "get_all_tools_openapi",
                                                  !.pc = "returned",
                                                  !.result = <<AllToolsOpenapi(connections)>>]]
    /\ UNCHANGED <<SMITHERY_API_KEY, connections, opened, objects, loopVars, wrapperVars, sandboxVars>>

\* the configurations, tool lists and tool identifiers of the calls when the
\* tools are what is checked
ToolConfigs ==
    McpConfigs \cup { [qualifiedName |-> "exa", name |-> "Exa", config |-> EmptyDict,
                       enabledTools |-> <<>>] }

ListedTools ==
    { <<Tool("search", "web search"), Tool("web_search", "None")>>,
      <<ToolWithSchema("search", "web search",
                       Schema("dict", [properties |-> [query |-> "string"],
                                       required |-> <<"query">>])),
        ToolWithSchema("crawl", "None", Schema("dict", [properties |-> [url |-> "string"]])),
        ToolWithSchema("fetch", "fetch", Schema("dict", EmptyDict)),
        ToolWithSchema("read", "read", Schema("None", EmptyDict)),
        ToolWithSchema("list", "list", Schema("list", EmptyDict))>> }

ToolIds ==
    { <<"mcp", "exa", "search">>,
      <<"mcp", "exa", "web", "search">>,
      <<"mcp", "a", "b", "search">>,
      <<"mcp", "exa">>,
      <<"xyz", "exa", "search">> }

NextTool ==
    \/ \E c \in Callers, mcp_config \in ToolConfigs : CallConnectServer(c, mcp_config)
    \/ \E c \in Callers : ConnectServerCheck(c)
    \/ \E c \in Callers, succeeded \in BOOLEAN, tools \in ListedTools :
           ConnectServerHandshake(c, succeeded, tools)
    \/ \E c \in Callers, tool_name \in ToolIds : ExecuteToolStart(c, tool_name)
    \/ \E c \in Callers, outcome \in ToolOutcomes : ExecuteToolTransport(c, outcome)
    \/ \E c \in Callers : DisconnectAll(c)
    \/ \E c \in Callers : GetAllToolsOpenapi(c)

\* the manager, its tools called by the coroutines of Callers
ToolSpec == InitMcp /\ [][NextTool]_vars

(***************************************************************************)
(* The properties of tool execution and of the tool list.                  *)
(***************************************************************************)
\* the caller starts a call of execute_tool in this step
StartsExecute(c) ==
    /\ call[c].pc \in {"idle", "returned", "raised"}
    /\ call'[c] # call[c]
    /\ call'[c].op = "execute_tool"

\* the caller's call of execute_tool comes back from its awaits in this step
EndsExecute(c) ==
    /\ call[c].op = "execute_tool" /\ call[c].pc = "transport"
    /\ call'[c] # call[c]

\* an identifier of at least three segments, the first of them 'mcp'
WellFormedId(tool_name) == Len(tool_name) >= 3 /\ tool_name[1] = "mcp"

InvalidFormat == "Invalid MCP tool name format"

\* C22: a call of execute_tool with a well-formed identifier of a connected
\* provider goes on to the transport and does not raise; whatever opening the
\* transport, initializing the session and calling the tool come to, the call
\* returns, and when one of them raised it returns the dict of the error
\* message with isError true.
C22_FailureIsData ==
    /\ [][\A c \in Callers :
             (/\ StartsExecute(c)
              /\ WellFormedId(call'[c].tool_name)
              /\ call'[c].tool_name[2] \in DOMAIN connections)
             => call'[c].pc = "transport"]_vars
    /\ [][\A c \in Callers : EndsExecute(c) =>
             /\ call'[c].pc = "returned"
             /\ \A o \in ToolOutcomes :
                   (call'[c].outcomes = <<o>> /\ o.kind = "raise")
                   => call'[c].result =
                         << [content |-> << <<"Error executing tool: ">>, <<o.reason>> >>,
                             isError |-> TRUE] >>]_vars

\* a call of execute_tool has returned the error dict of a failed session
\* initialization
C22_Witness ==
    \E c \in Callers :
        /\ call[c].op = "execute_tool" /\ call[c].pc = "returned"
        /\ call[c].outcomes[1].kind = "raise" /\ call[c].outcomes[1].at = "initialize"
        /\ call[c].result[1].isError

McpExaWebSearch == <<"mcp", "exa", "web", "search">>

\* C23 as stated: a call execute_tool("mcp_exa_web_search") ends with the
\* invalid-format error, whatever the cache holds.
C23_InvalidFormat_Original ==
    \A c \in Callers :
        (call[c].op = "execute_tool" /\ call[c].tool_name = McpExaWebSearch)
        => (call[c].pc = "raised" /\ call[c].error = InvalidFormat)

\* C23 amended: a call execute_tool("mcp_exa"), an identifier of two segments,
\* raises the invalid-format error and opens no transport, whatever the cache
\* holds; "mcp_exa_web_search" is no such identifier: it is split into mcp, exa
\* and web_search, raises not-connected (and opens no transport) when exa is
\* not in the cache and is executed on the connection of exa otherwise.
C23_InvalidFormat ==
    [][\A c \in Callers : StartsExecute(c) =>
          /\ call'[c].tool_name = <<"mcp", "exa">>
             => /\ call'[c].pc = "raised" /\ call'[c].error = InvalidFormat
                /\ opened' = opened
          /\ call'[c].tool_name = McpExaWebSearch
             => /\ call'[c].original_tool_name = <<"web", "search">>
                /\ opened' = opened
                /\ IF "exa" \in DOMAIN connections
                   THEN SMITHERY_API_KEY # "None"
                        => (call'[c].pc = "transport" /\ call'[c].conn = <<connections["exa"]>>)
                   ELSE call'[c].pc = "raised" /\ call'[c].error = "not connected"]_vars

\* exa is connected and execute_tool("mcp_exa") has raised the invalid-format
\* error
C23_Witness ==
    \E c \in Callers :
        /\ "exa" \in DOMAIN connections
        /\ call[c].op = "execute_tool" /\ call[c].tool_name = <<"mcp", "exa">>
        /\ call[c].pc = "raised" /\ call[c].error = InvalidFormat
        /\ opened["exa"] = 1

\* C24: a call of execute_tool with an identifier that does not start with the
\* segment mcp, or of fewer than three segments, raises the invalid-format
\* error (not the not-connected one, whatever the cache holds), has no
\* connection, opens no transport and leaves the cache as it was.
C24_CallerError ==
    [][\A c \in Callers :
          (StartsExecute(c) /\ ~WellFormedId(call'[c].tool_name))
          => /\ call'[c].pc = "raised" /\ call'[c].error = InvalidFormat
             /\ call'[c].conn = <<>>
             /\ opened' = opened
             /\ connections' = connections]_vars

\* exa is connected and execute_tool("xyz_exa_search") has raised the
\* invalid-format error
C24_Witness ==
    \E c \in Callers :
        /\ "exa" \in DOMAIN connections
        /\ call[c].op = "execute_tool" /\ call[c].tool_name = <<"xyz", "exa", "search">>
        /\ call[c].pc = "raised" /\ call[c].error = InvalidFormat
        /\ call[c].conn = <<>>

\* the tools the cached connections list, as pairs of a key and an index
ListedPairs ==
    UNION { { <<q, i>> : i \in 1..Len(connections[q].tools) } : q \in DOMAIN connections }

ToolOf(pr) == connections[pr[1]].tools[pr[2]]

\* the identifier 'mcp_' + qualifiedName + '_' + toolName
Encoded(qualifiedName, toolName) == <<"mcp">> \o Segments(qualifiedName) \o Segments(toolName)

\* C25: for a qualifiedName without underscores and a tool name with or
\* without them, the identifier made of both is split into mcp, the
\* qualifiedName and the tool name; a call of execute_tool with it has that
\* tool name as its original_tool_name and, if it has a connection, the one of
\* that name.
C25_RoundTrip ==
    /\ \A pr \in ListedPairs :
          Len(Segments(pr[1])) = 1
          => SplitTwice(ToolId(pr[1], ToolOf(pr).name))
                = << <<"mcp">>, <<pr[1]>>, Segments(ToolOf(pr).name) >>
    /\ \A c \in Callers, toolName \in {"search", "web_search"} :
          (call[c].op = "execute_tool" /\ call[c].tool_name = Encoded("exa", toolName))
          => /\ call[c].original_tool_name = Segments(toolName)
             /\ call[c].error # InvalidFormat
             /\ call[c].conn # <<>> => call[c].conn[1].qualified_name = "exa"

\* exa lists web_search, and execute_tool("mcp_exa_web_search") has called the
\* tool web_search on the connection of exa
C25_Witness ==
    \E c \in Callers :
        /\ call[c].op = "execute_tool" /\ call[c].pc = "returned"
        /\ call[c].tool_name = Encoded("exa", "web_search")
        /\ call[c].original_tool_name = <<"web", "search">>
        /\ call[c].conn[1].qualified_name = "exa"
        /\ call[c].outcomes[1].kind = "result"
        /\ \E pr \in ListedPairs : pr[1] = "exa" /\ ToolOf(pr).name = "web_search"

\* the tool passes the allow-list of the connection
Passes(conn, tool) ==
    \/ conn.enabled_tools = <<>>
    \/ \E i \in 1..Len(conn.enabled_tools) : conn.enabled_tools[i] = tool.name

\* C26: for every cached connection and every tool it lists that passes the
\* allow-list, a call of execute_tool with the name get_all_tools_openapi gives
\* the tool goes to the transport with that connection and with the tool's own
\* name, whether or not the qualifiedName has underscores.
C26_NeverResplit ==
    [][\A c \in Callers, pr \in ListedPairs :
          (/\ StartsExecute(c)
           /\ Passes(connections[pr[1]], ToolOf(pr))
           /\ call'[c].tool_name = Encoded(pr[1], ToolOf(pr).name))
          => /\ call'[c].pc = "transport"
             /\ call'[c].conn = <<connections[pr[1]]>>
             /\ call'[c].original_tool_name = Segments(ToolOf(pr).name)]_vars

RECURSIVE Total(_)
\* the number of entries of a list given as the number of times each is in it
Total(list) ==
    IF DOMAIN list = {} THEN 0
    ELSE LET e == CHOOSE x \in DOMAIN list : TRUE
         IN  list[e] + Total([x \in DOMAIN list \ {e} |-> list[x]])

\* C27: the list get_all_tools_openapi returns has an entry of the name of
\* every listed tool that passes the allow-list of its connection, no entry of
\* another name, and as many entries as there are such tools; a tool passes
\* iff the allow-list is empty or absent, or holds the tool's name.
C27_AllowList ==
    [][\A c \in Callers :
          (call'[c] # call[c] /\ call'[c].op = "get_all_tools_openapi")
          => LET list == call'[c].result[1]
                 passing == {pr \in ListedPairs : Passes(connections[pr[1]], ToolOf(pr))}
             IN  /\ \A pr \in passing :
                       \E e \in DOMAIN list : e.name = Encoded(pr[1], ToolOf(pr).name)
                 /\ \A e \in DOMAIN list :
                       \E pr \in passing : e.name = Encoded(pr[1], ToolOf(pr).name)
                 /\ Total(list) = Cardinality(passing)]_vars

\* exa, which allows search only, and a_b, which has no allow-list, are
\* connected and list search and web_search; the list returned has search of
\* exa and both tools of a_b
C27_Witness ==
    \E c \in Callers :
        /\ call[c].op = "get_all_tools_openapi" /\ call[c].pc = "returned"
        /\ DOMAIN connections = {"exa", "a_b"}
        /\ connections["exa"].enabled_tools = <<"search">>
        /\ {e.name : e \in DOMAIN call[c].result[1]}
              = { <<"mcp", "exa", "search">>, <<"mcp", "a", "b", "search">>,
                  <<"mcp", "a", "b", "web", "search">> }

\* C28: a call of disconnect_all returns and leaves the cache empty, whatever
\* the cache held; with an empty cache get_all_tools_openapi returns the empty
\* list, execute_tool of a well-formed identifier raises not-connected, and
\* connect_server, the API key being set, goes on to a handshake.
C28_DisconnectAll ==
    /\ [][\A c \in Callers :
             (call'[c] # call[c] /\ call'[c].op = "disconnect_all")
             => (connections' = EmptyDict /\ call'[c].pc = "returned")]_vars
    /\ [][\A c \in Callers :
             (/\ connections = EmptyDict
              /\ call'[c] # call[c] /\ call'[c].op = "get_all_tools_openapi")
             => DOMAIN call'[c].result[1] = {}]_vars
    /\ [][\A c \in Callers :
             (/\ connections = EmptyDict
              /\ StartsExecute(c) /\ WellFormedId(call'[c].tool_name))
             => (call'[c].pc = "raised" /\ call'[c].error = "not connected")]_vars
    /\ [][\A c \in Callers :
             (/\ connections = EmptyDict
              /\ call[c].op = "connect_server" /\ call[c].pc = "check"
              /\ call'[c] # call[c]
              /\ SMITHERY_API_KEY # "None")
             => call'[c].pc = "handshake"]_vars

\* one caller connected a server, called disconnect_all and connected the
\* server again: there were two handshakes and two connection objects
C28_Witness ==
    \E c \in Callers :
        /\ calls = 3
        /\ \A d \in Callers \ {c} : call[d] = NoCall
        /\ call[c].op = "connect_server" /\ call[c].pc = "returned"
        /\ call[c].outcomes = <<"connected">>
        /\ opened[ServerOf(c)] = 2
        /\ objects = 2
        /\ connections[ServerOf(c)].id = 2

\* C30: the step in which a call of execute_tool comes back from its awaits
\* opens one more transport to the server, whether it returns a result or an
\* error; neither this step nor the start of the call changes the cache; the
\* connection of the call is the cached one, whose configuration it uses, and
\* no cached connection holds a session that a call could use again.
C30_FreshTransport ==
    /\ [][\A c \in Callers : EndsExecute(c) =>
             /\ \E q \in DOMAIN connections \cup {call[c].conn[1].qualified_name} :
                   /\ q = call[c].conn[1].qualified_name
                   /\ opened' = [opened EXCEPT ![q] = @ + 1]
             /\ connections' = connections]_vars
    /\ [][\A c \in Callers : StartsExecute(c) =>
             /\ connections' = connections
             /\ opened' = opened
             /\ call'[c].pc = "transport"
                => \E q \in DOMAIN connections : call'[c].conn = <<connections[q]>>]_vars
    /\ [](\A q \in DOMAIN connections : connections[q].session = "None")

\* two calls of execute_tool on exa have returned, a result and an error:
\* with the handshake of connect_server, three transports were opened
C30_Witness ==
    /\ \A c \in Callers : call[c].op = "execute_tool" /\ call[c].pc = "returned"
    /\ {call[c].outcomes[1].kind : c \in Callers} = {"raise", "result"}
    /\ opened["exa"] = 3
    /\ objects = 1
    /\ "exa" \in DOMAIN connections

(***************************************************************************)
(* The manager of the tool wrapper: get_mcp_manager keeps one MCPManager in *)
(* the global mcp_manager.  A manager is the number of its construction,   *)
(* 0 is None, and caches[m] is the connection cache of manager m.          *)
(***************************************************************************)
\* mcp_tool_wrapper.py 24 and models/mcp.py: config.dict() has the four fields
\* of McpConfig; enabledTools is None when it was not given, written <<>>
\* here, which is as falsy as None for the manager
ConfigDict(config) ==
    [qualifiedName |-> config.qualifiedName,
     name |-> config.name,
     config |-> config.config,
     enabledTools |-> GetOr(config, "enabledTools", <<>>)]

DictConfigs(mcp_configs) == [i \in 1..Len(mcp_configs) |-> ConfigDict(mcp_configs[i])]

RECURSIVE NextAwait(_, _, _, _)
\* client.py 128-134 with 85-95: connect_all from the configuration idx on, up
\* to its next await: a cached server is returned at once and a missing API
\* key raises, which connect_all logs; the index of the configuration whose
\* handshake is awaited, or one past the last
NextAwait(cache, configs, idx, key) ==
    IF idx > Len(configs) THEN idx
    ELSE IF configs[idx].qualifiedName \in DOMAIN cache \/ ~Truthy(key)
    THEN NextAwait(cache, configs, idx + 1, key)
    ELSE idx

\* a mutant of MustBuild: a manager is built by every call
MustBuildAlways(manager, force_reload) == TRUE

\* mcp_tool_wrapper.py 17: mcp_manager is None or force_reload
MustBuild(manager, force_reload) == manager = 0 \/ force_reload

\* the call a caller of get_mcp_manager is in: the call is number no, self is
\* the manager whose connect_all runs, and the call has returned the global
\* manager when idx is past the configurations
ManagerCall(no, force_reload, configs, idx, self, manager) ==
    [op |-> "get_mcp_manager",
     pc |-> IF idx > Len(configs) THEN "returned" ELSE "handshake",
     configs |-> configs, idx |-> idx,
     result |-> IF idx > Len(configs) THEN <<manager>> ELSE <<>>,
     outcomes |-> <<>>, no |-> no, force_reload |-> force_reload, self |-> self]

\* mcp_tool_wrapper.py 11-27: a caller that is in no call calls
\* get_mcp_manager(force_reload, mcp_configs), which runs up to its first
\* await that suspends: disconnect_all has none
GetMcpManagerEnter(c, force_reload, mcp_configs) ==
    /\ call[c].pc \in {"idle", "returned", "raised"}
    /\ calls < MaxCalls
    /\ calls' = calls + 1
    /\ IF MustBuild(mcp_manager, force_reload)
       THEN LET new == Len(caches) + 1
                configs == DictConfigs(mcp_configs)
                idx == NextAwait(EmptyDict, configs, 1, SMITHERY_API_KEY)
            IN  /\ caches' = Append(IF force_reload /\ mcp_manager # 0
                                    THEN [caches EXCEPT ![mcp_manager] = EmptyDict]
                                    ELSE caches,
                                    EmptyDict)
                /\ mcp_manager' = new
                /\ call' = [call EXCEPT ![c] =
                               ManagerCall(calls + 1, force_reload, configs, idx, new, new)]
       ELSE /\ call' = [call EXCEPT ![c] =
                           ManagerCall(calls + 1, force_reload, <<>>, 1, mcp_manager,
                                       mcp_manager)]
            /\ UNCHANGED <<mcp_manager, caches>>
    /\ UNCHANGED <<SMITHERY_API_KEY, connections, opened, objects, loopVars, sandboxVars>>

\* client.py 97-134 under mcp_tool_wrapper.py 25-27: the handshake of the
\* configuration connect_all is at comes to an end; connect_all stores the
\* connection in the cache of its manager or logs the failure and goes on, and
\* after the last configuration get_mcp_manager returns the global manager
GetMcpManagerHandshake(c, succeeded, tools) ==
    /\ call[c].op = "get_mcp_manager"
    /\ call[c].pc = "handshake"
    /\ LET cfg == call[c].configs[call[c].idx]
           q == cfg.qualifiedName
           m == call[c].self
           cache == IF succeeded
                    THEN Store(caches[m], q, MCPConnection(cfg, tools, objects + 1))
                    ELSE caches[m]
           idx == NextAwait(cache, call[c].configs, call[c].idx + 1, SMITHERY_API_KEY)
           done == idx > Len(call[c].configs)
       IN  /\ opened' = [opened EXCEPT ![q] = @ + 1]
           /\ objects' = IF succeeded THEN objects + 1 ELSE objects
           /\ caches' = [caches EXCEPT ![m] = cache]
           /\ call' = [call EXCEPT
                          ![c].idx = idx,
                          ![c].pc = IF done THEN "returned" ELSE "handshake",
                          ![c].result = IF done THEN <<mcp_manager>> ELSE <<>>,
                          ![c].outcomes =
                              Append(@, IF succeeded THEN "connected" ELSE "failed")]
    /\ UNCHANGED <<SMITHERY_API_KEY, connections, calls, mcp_manager, loopVars,
                   sandboxVars>>

\* the lists of configurations the wrappers are made with
WrapperConfigLists ==
    { <<>>,
      <<[qualifiedName |-> "exa", name |-> "Exa", config |-> [exaApiKey |-> "k"],
         enabledTools |-> <<"search">>]>>,
      <<[qualifiedName |-> "exa", name |-> "Exa", config |-> [exaApiKey |-> "k"],
         enabledTools |-> <<"search">>],
        [qualifiedName |-> "a_b", name |-> "AB", config |-> EmptyDict]>> }

NextWrapper ==
    \/ \E c \in Callers, force_reload \in BOOLEAN, mcp_configs \in WrapperConfigLists :
           GetMcpManagerEnter(c, force_reload, mcp_configs)
    \/ \E c \in Callers, succeeded \in BOOLEAN, tools \in ToolLists :
           GetMcpManagerHandshake(c, succeeded, tools)

\* the global manager, asked for by the coroutines of Callers
WrapperSpec == InitMcp /\ [][NextWrapper]_vars

\* the caller starts a call of get_mcp_manager in this step
StartsGetManager(c) ==
    /\ call[c].pc \in {"idle", "returned", "raised"}
    /\ call'[c] # call[c]
    /\ call'[c].op = "get_mcp_manager"

\* C29: a call of get_mcp_manager while there is no manager constructs one and
\* makes it the global one; a call without force_reload while there is a
\* manager returns that manager at once, constructs no manager, opens no
\* transport and changes no cache; a call with force_reload while there is a
\* manager empties the cache of that manager and constructs a new manager
\* with an empty cache in the same step, and what it returns in the end is a
\* manager that is not the old one; a manager is only ever constructed by a
\* call that found none or had force_reload.
C29_Singleton ==
    /\ [][\A c \in Callers : (StartsGetManager(c) /\ mcp_manager = 0) =>
             /\ Len(caches') = 1 /\ caches'[1] = EmptyDict
             /\ mcp_manager' = 1
             /\ call'[c].self = 1]_vars
    /\ [][\A c \in Callers :
             (StartsGetManager(c) /\ mcp_manager # 0 /\ ~call'[c].force_reload) =>
             /\ call'[c].pc = "returned" /\ call'[c].result = <<mcp_manager>>
             /\ mcp_manager' = mcp_manager
             /\ caches' = caches
             /\ opened' = opened /\ objects' = objects]_vars
    /\ [][\A c \in Callers :
             (StartsGetManager(c) /\ mcp_manager # 0 /\ call'[c].force_reload) =>
             /\ Len(caches') = Len(caches) + 1
             /\ caches'[mcp_manager] = EmptyDict
             /\ caches'[Len(caches')] = EmptyDict
             /\ mcp_manager' = Len(caches')
             /\ call'[c].self = mcp_manager']_vars
    /\ [](\A c \in Callers :
             (call[c].op = "get_mcp_manager" /\ call[c].pc = "returned") =>
             /\ call[c].result[1] \in 1..Len(caches)
             /\ call[c].result[1] >= call[c].self)
    /\ [][Len(caches') # Len(caches) =>
             \E c \in Callers :
                 /\ StartsGetManager(c)
                 /\ mcp_manager = 0 \/ call'[c].force_reload]_vars

\* the first call built manager 1 and connected exa, the second call, without
\* force_reload, returned manager 1, and the third, with force_reload,
\* emptied the cache of manager 1 and returned manager 2
C29_Witness ==
    \E c \in Callers, d \in Callers :
        /\ call[d].op = "get_mcp_manager" /\ call[d].no = 2
        /\ ~call[d].force_reload /\ call[d].result = <<1>>
        /\ call[c].op = "get_mcp_manager" /\ call[c].no = 3
        /\ call[c].force_reload /\ call[c].configs = <<>> /\ call[c].result = <<2>>
        /\ mcp_manager = 2
        /\ caches[1] = EmptyDict
        /\ opened["exa"] >= 1 /\ objects >= 1

(***************************************************************************)
(* The missing API key and the schema of the tools.                        *)
(***************************************************************************)
\* C31: when SMITHERY_API_KEY is not set, a call of connect_server raises at
\* its check and a call of execute_tool raises when it starts, both without
\* opening a transport and without a result; execute_tool raises the error of
\* the missing key, and returns no dict, also for a well-formed identifier of
\* a server that is in the cache; no transport is ever opened without the key.
C31_MissingKey ==
    /\ [][\A c \in Callers :
             (/\ ~Truthy(SMITHERY_API_KEY)
              /\ call[c].op = "connect_server" /\ call[c].pc = "check"
              /\ call'[c] # call[c])
             => /\ call'[c].pc = "raised" /\ call'[c].result = <<>>
                /\ opened' = opened /\ connections' = connections]_vars
    /\ [][\A c \in Callers :
             (~Truthy(SMITHERY_API_KEY) /\ StartsExecute(c))
             => /\ call'[c].pc = "raised" /\ call'[c].result = <<>>
                /\ opened' = opened]_vars
    /\ [](\A tool_name \in ToolIds :
             LET entered == ExecuteToolEntered(tool_name, connections, "None")
             IN  /\ entered.pc = "raised" /\ entered.result = <<>>
                 /\ (WellFormedId(tool_name) /\ tool_name[2] \in DOMAIN connections)
                    => entered.error = "SMITHERY_API_KEY is not set")
    /\ [](~Truthy(SMITHERY_API_KEY) => \A q \in QualifiedNames : opened[q] = 0)

\* without the key, a call of connect_server and a call of execute_tool have
\* both raised and no transport was opened
C31_Witness ==
    /\ SMITHERY_API_KEY = "None"
    /\ \E c \in Callers, d \in Callers :
          /\ call[c].op = "connect_server" /\ call[c].pc = "raised"
          /\ call[d].op = "execute_tool" /\ call[d].pc = "raised"
    /\ \A q \in QualifiedNames : opened[q] = 0

\* the input schema of the tool is there, not empty and a mapping
HasMapping(tool) ==
    /\ "inputSchema" \in DOMAIN tool
    /\ tool.inputSchema.kind = "dict"
    /\ DOMAIN tool.inputSchema.dict # {}

\* C32: every entry of the list get_all_tools_openapi returns has the fields
\* name, description and parameters, and parameters has type object,
\* properties and required; the entry of a listed tool that passes the
\* allow-list has the name 'mcp_' + qualifiedName + '_' + toolName, and the
\* properties and required of the tool's input schema where that schema is a
\* non-empty mapping that has them, and {} and [] in every other case.
C32_SchemaProjection ==
    [][\A c \in Callers :
          (call'[c] # call[c] /\ call'[c].op = "get_all_tools_openapi")
          => LET list == call'[c].result[1]
             IN  /\ \A e \in DOMAIN list :
                       /\ DOMAIN e = {"name", "description", "parameters"}
                       /\ DOMAIN e.parameters = {"type", "properties", "required"}
                       /\ e.parameters.type = "object"
                 /\ \A pr \in ListedPairs :
                       Passes(connections[pr[1]], ToolOf(pr))
                       => \E e \in DOMAIN list :
                           /\ e.name = Encoded(pr[1], ToolOf(pr).name)
                           /\ e.parameters.properties =
                                 IF /\ HasMapping(ToolOf(pr))
                                    /\ "properties" \in DOMAIN ToolOf(pr).inputSchema.dict
                                 THEN ToolOf(pr).inputSchema.dict.properties
                                 ELSE EmptyDict
                           /\ e.parameters.required =
                                 IF /\ HasMapping(ToolOf(pr))
                                    /\ "required" \in DOMAIN ToolOf(pr).inputSchema.dict
                                 THEN ToolOf(pr).inputSchema.dict.required
                                 ELSE <<>>]_vars

\* a_b lists five tools with input schemas of every kind; the list returned
\* has the properties and required of search, the properties of crawl with
\* no required, and neither for read, whose schema is None
C32_Witness ==
    \E c \in Callers :
        /\ call[c].op = "get_all_tools_openapi" /\ call[c].pc = "returned"
        /\ "a_b" \in DOMAIN connections
        /\ Len(connections["a_b"].tools) = 5
        /\ \E e \in DOMAIN call[c].result[1] :
              /\ e.name = <<"mcp", "a", "b", "search">>
              /\ e.parameters.properties = [query |-> "string"]
              /\ e.parameters.required = <<"query">>
        /\ \E e \in DOMAIN call[c].result[1] :
              /\ e.name = <<"mcp", "a", "b", "crawl">>
              /\ e.parameters.properties = [url |-> "string"]
              /\ e.parameters.required = <<>>
        /\ \E e \in DOMAIN call[c].result[1] :
              /\ e.name = <<"mcp", "a", "b", "read">>
              /\ e.parameters.properties = EmptyDict

(***************************************************************************)
(* The sandbox: DaytonaSandbox (backend/sandbox/daytona_sandbox.py), made   *)
(* by get_sandbox (sandbox.py) in the setup mode daytona, and the tool     *)
(* base class (tool_base.py).  The calls are made one after another.  A    *)
(* call of the Daytona server may fail at any time.                        *)
(***************************************************************************)
MaxSandboxCalls == 3

\* the ids the server gives its workspaces, in the order of their creation
WorkspaceIds == <<"ws1", "ws2", "ws3", "ws4", "ws5", "ws6", "ws7", "ws8">>

Workspace(state, label) == [state |-> state, label |-> label, removed |-> FALSE]

\* daytona_client.get_current_sandbox(id) finds the workspace
Exists(ws, id) == id \in DOMAIN ws /\ ~ws[id].removed

\* the sandbox instance get_current_sandbox returns: the state is the one
\* the workspace has at that moment
Snapshot(ws, id) == [id |-> id, state |-> ws[id].state]

\* daytona_sandbox.py 14-45: the constructor; ok is false when the call of
\* the server failed.  auto_create is recorded, the code keeps it nowhere
DaytonaSandbox(sandbox_id, auto_create, project_id_label, ws, ok) ==
    LET obj == [constructed |-> TRUE, sandbox_id |-> sandbox_id,
                project_id_label |-> project_id_label,
                sandbox_instance |-> NoInstance, auto_create |-> auto_create]
    IN  IF ~Truthy(sandbox_id) THEN [raised |-> FALSE, obj |-> obj]
        ELSE IF ok /\ Exists(ws, sandbox_id)
        THEN [raised |-> FALSE,
              obj |-> [obj EXCEPT !.sandbox_instance = Snapshot(ws, sandbox_id)]]
        ELSE IF ~auto_create THEN [raised |-> TRUE, obj |-> NoSandbox]
        ELSE [raised |-> FALSE, obj |-> [obj EXCEPT !.sandbox_id = "None"]]

\* what start() has come to: the object, the workspaces, whether it raised and
\* how many workspaces it created
Started(obj, ws, raised, created_now) ==
    [obj |-> obj, ws |-> ws, raised |-> raised, created |-> created_now]

\* daytona_sandbox.py 106-132: _create_new_sandbox; the new workspace runs
CreateNewSandbox(obj, ws, failing) ==
    IF failing = "create" THEN Started(obj, ws, TRUE, 0)
    ELSE LET id == WorkspaceIds[Cardinality(DOMAIN ws) + 1]
             made == [w \in (DOMAIN ws) \cup {id} |->
                         IF w = id THEN Workspace("RUNNING", obj.project_id_label)
                         ELSE ws[w]]
         IN  Started([obj EXCEPT !.sandbox_instance = Snapshot(made, id),
                                 !.sandbox_id = id],
                     made, FALSE, 1)

\* the first of the workspaces ids in the list of the server
FirstListed(ids) ==
    WorkspaceIds[CHOOSE i \in 1..Len(WorkspaceIds) :
                    /\ WorkspaceIds[i] \in ids
                    /\ \A j \in 1..(i - 1) : WorkspaceIds[j] \notin ids]

\* daytona_sandbox.py 69-86: start() loads the instance if there is none: by
\* the id, else by the label, else it creates one
StartLoad(obj, ws, failing) ==
    IF obj.sandbox_instance # NoInstance THEN Started(obj, ws, FALSE, 0)
    ELSE IF Truthy(obj.sandbox_id)
    THEN IF failing # "get" /\ Exists(ws, obj.sandbox_id)
         THEN Started([obj EXCEPT !.sandbox_instance = Snapshot(ws, obj.sandbox_id)],
                      ws, FALSE, 0)
         ELSE Started(obj, ws, TRUE, 0)
    ELSE IF Truthy(obj.project_id_label)
    THEN IF failing = "list" THEN Started(obj, ws, TRUE, 0)
         ELSE LET found == {id \in DOMAIN ws :
                               ~ws[id].removed /\ ws[id].label = obj.project_id_label}
              IN  IF found # {}
                  THEN Started([obj EXCEPT
                                   !.sandbox_instance = Snapshot(ws, FirstListed(found)),
                                   !.sandbox_id = FirstListed(found)],
                               ws, FALSE, 0)
                  ELSE CreateNewSandbox(obj, ws, failing)
    ELSE CreateNewSandbox(obj, ws, failing)

\* daytona_sandbox.py 89-104: a workspace that does not run is started and
\* the instance loaded again; _ensure_session lets no exception out
StartRun(loaded, failing) ==
    IF loaded.raised THEN loaded
    ELSE LET instance == loaded.obj.sandbox_instance
         IN  IF instance.state \in {"ARCHIVED", "STOPPED", "UNKNOWN"}
             THEN IF failing = "start" \/ ~Exists(loaded.ws, instance.id)
                  THEN [loaded EXCEPT !.raised = TRUE]
                  ELSE LET ws == [loaded.ws EXCEPT ![instance.id].state = "RUNNING"]
                       IN  IF failing = "refresh"
                           THEN [loaded EXCEPT !.ws = ws, !.raised = TRUE]
                           ELSE [loaded EXCEPT
                                    !.ws = ws,
                                    !.obj.sandbox_instance =
                                        Snapshot(ws, loaded.obj.sandbox_id)]
             ELSE loaded

\* daytona_sandbox.py 65-104: start()
DaytonaStart(obj, ws, failing) == StartRun(StartLoad(obj, ws, failing), failing)

\* the calls of the server one of which may fail in a call of start()
Failings == {"none", "get", "list", "create", "start", "refresh"}

Outcome(op, result) == [op |-> op, result |-> result]

\* sandbox.py 22-51: get_sandbox(sandbox_id, auto_create, project_id_label)
\* called by code that uses no tool; an exception of the constructor is
\* raised as a RuntimeError
GetSandbox(sandbox_id, auto_create, project_id_label, ok) ==
    /\ ~daytona.constructed /\ ~tool_base.constructed
    /\ sandbox_calls < MaxSandboxCalls
    /\ sandbox_calls' = sandbox_calls + 1
    /\ LET made == DaytonaSandbox(sandbox_id, auto_create, project_id_label,
                                  workspaces, ok)
       IN  /\ daytona' = made.obj
           /\ sandbox_result' = Outcome("get_sandbox",
                                        IF made.raised THEN "raised" ELSE "returned")
    /\ UNCHANGED <<workspaces, tool_base, creations, starts, loopVars, mcpVars>>

\* daytona_sandbox.py 65-104: start() called on the sandbox
Start(failing) ==
    /\ daytona.constructed
    /\ sandbox_calls < MaxSandboxCalls
    /\ sandbox_calls' = sandbox_calls + 1
    /\ LET started == DaytonaStart(daytona, workspaces, failing)
       IN  /\ daytona' = started.obj
           /\ workspaces' = started.ws
           /\ creations' = creations + started.created
           /\ sandbox_result' = Outcome("start",
                                        IF started.raised THEN "raised" ELSE "returned")
    /\ UNCHANGED <<tool_base, starts, loopVars, mcpVars>>

\* daytona_sandbox.py 155-173: stop(); the instance is not loaded again and an
\* exception is logged
Stop(ok) ==
    /\ daytona.constructed
    /\ sandbox_calls < MaxSandboxCalls
    /\ sandbox_calls' = sandbox_calls + 1
    /\ workspaces' =
          IF /\ daytona.sandbox_instance # NoInstance
             /\ daytona.sandbox_instance.state = "RUNNING"
             /\ ok /\ Exists(workspaces, daytona.sandbox_instance.id)
          THEN [workspaces EXCEPT ![daytona.sandbox_instance.id].state = "STOPPED"]
          ELSE workspaces
    /\ sandbox_result' = Outcome("stop", "returned")
    /\ UNCHANGED <<daytona, tool_base, creations, starts, loopVars, mcpVars>>

\* daytona_sandbox.py 175-211: execute_command(command) starts the sandbox if
\* it has no running instance and returns -1 if that or the command fails
ExecuteCommand(failing, ok) ==
    /\ daytona.constructed
    /\ sandbox_calls < MaxSandboxCalls
    /\ sandbox_calls' = sandbox_calls + 1
    /\ LET running(obj) == /\ obj.sandbox_instance # NoInstance
                           /\ obj.sandbox_instance.state = "RUNNING"
           started == IF running(daytona) THEN Started(daytona, workspaces, FALSE, 0)
                      ELSE DaytonaStart(daytona, workspaces, failing)
       IN  /\ daytona' = started.obj
           /\ workspaces' = started.ws
           /\ creations' = creations + started.created
           /\ sandbox_result' =
                 Outcome("execute_command",
                         IF started.raised \/ ~running(started.obj) \/ ~ok THEN "-1"
                         ELSE "0")
    /\ UNCHANGED <<tool_base, starts, loopVars, mcpVars>>

\* daytona_sandbox.py 236-249: delete() removes the workspace of the instance
\* and forgets the instance and the id, or raises
Delete(ok) ==
    /\ daytona.constructed
    /\ sandbox_calls < MaxSandboxCalls
    /\ sandbox_calls' = sandbox_calls + 1
    /\ IF daytona.sandbox_instance = NoInstance
       THEN /\ sandbox_result' = Outcome("delete", "returned")
            /\ UNCHANGED <<daytona, workspaces>>
       ELSE IF ok /\ Exists(workspaces, daytona.sandbox_instance.id)
       THEN /\ workspaces' = [workspaces EXCEPT
                                 ![daytona.sandbox_instance.id].removed = TRUE]
            /\ daytona' = [daytona EXCEPT !.sandbox_instance = NoInstance,
                                          !.sandbox_id = "None"]
            /\ sandbox_result' = Outcome("delete", "returned")
       ELSE /\ sandbox_result' = Outcome("delete", "raised")
            /\ UNCHANGED <<daytona, workspaces>>
    /\ UNCHANGED <<tool_base, creations, starts, loopVars, mcpVars>>

\* tool_base.py 23-30: a tool of the project; db is what the database has of
\* the project: there is no database ("NoDb"), no row ("NoProject"), a row
\* without a sandbox id ("NoSandboxId") or a row with the id ws1 ("HasId")
SandboxToolsBase(project_id, db) ==
    [constructed |-> TRUE, project_id |-> project_id, db |-> db,
     _sandbox |-> "None", _sandbox_id |-> "None"]

\* tool_base.py 34-84: the id _ensure_sandbox gets the sandbox with, "raise"
\* if it raises before
EnsuredId(t, db_ok) ==
    IF t.db = "NoDb"
    THEN IF ~Truthy(t.project_id) THEN "raise" ELSE t.project_id
    ELSE IF ~db_ok \/ t.db = "NoProject" THEN "raise"
    ELSE IF t.db = "NoSandboxId" THEN t.project_id
    ELSE "ws1"

\* tool_base.py 32-111: _ensure_sandbox(); _sandbox is "daytona" when the
\* tool holds the sandbox object
EnsureSandbox(db_ok, ok, failing) ==
    /\ tool_base.constructed
    /\ sandbox_calls < MaxSandboxCalls
    /\ sandbox_calls' = sandbox_calls + 1
    /\ IF tool_base._sandbox # "None"
       THEN /\ sandbox_result' = Outcome("_ensure_sandbox", "returned")
            /\ UNCHANGED <<tool_base, daytona, workspaces, creations, starts>>
       ELSE IF EnsuredId(tool_base, db_ok) = "raise"
       THEN /\ sandbox_result' = Outcome("_ensure_sandbox", "raised")
            /\ UNCHANGED <<tool_base, daytona, workspaces, creations, starts>>
       ELSE LET sandbox_id == EnsuredId(tool_base, db_ok)
                made == DaytonaSandbox(sandbox_id, TRUE, tool_base.project_id,
                                       workspaces, ok)
                started == DaytonaStart(made.obj, workspaces, failing)
            IN  /\ tool_base' = [tool_base EXCEPT !._sandbox = "daytona",
                                                  !._sandbox_id = sandbox_id]
                /\ daytona' = started.obj
                /\ workspaces' = started.ws
                /\ creations' = creations + started.created
                /\ starts' = IF started.raised THEN starts ELSE starts + 1
                /\ sandbox_result' =
                      Outcome("_ensure_sandbox",
                              IF started.raised THEN "raised" ELSE "returned")
    /\ UNCHANGED <<loopVars, mcpVars>>

\* tool_base.py 114-122: the property sandbox is read
SandboxProperty ==
    /\ tool_base.constructed
    /\ sandbox_calls < MaxSandboxCalls
    /\ sandbox_calls' = sandbox_calls + 1
    /\ sandbox_result' = Outcome("sandbox",
                                 IF tool_base._sandbox = "None" THEN "raised"
                                 ELSE "returned")
    /\ UNCHANGED <<tool_base, daytona, workspaces, creations, starts, loopVars, mcpVars>>

\* the workspaces the server has at the beginning
InitialWorkspaces ==
    { [id \in {} |-> NoInstance],
      [id \in {"ws1"} |-> Workspace("STOPPED", "p1")],
      [id \in {"ws1"} |-> Workspace("RUNNING", "None")] }

\* the tools: of a project or of none, with and without a database
InitialTools ==
    {NoTool, SandboxToolsBase("", "NoDb")}
        \cup {SandboxToolsBase("p1", db) : db \in {"NoDb", "NoProject", "NoSandboxId", "HasId"}}

InitSandbox ==
    /\ LoopInit({<<>>})
    /\ max_iterations = 0
    /\ ManagerInit({"None"})
    /\ workspaces \in InitialWorkspaces
    /\ daytona = NoSandbox
    /\ tool_base \in InitialTools
    /\ sandbox_result = NoOutcome
    /\ creations = 0
    /\ starts = 0
    /\ sandbox_calls = 0

NextSandbox ==
    \/ \E sandbox_id \in {"None", "ws1"}, auto_create \in BOOLEAN,
          project_id_label \in {"None", "p1"}, ok \in BOOLEAN :
           GetSandbox(sandbox_id, auto_create, project_id_label, ok)
    \/ \E failing \in Failings : Start(failing)
    \/ \E ok \in BOOLEAN : Stop(ok)
    \/ \E failing \in Failings, ok \in BOOLEAN : ExecuteCommand(failing, ok)
    \/ \E ok \in BOOLEAN : Delete(ok)
    \/ \E db_ok \in BOOLEAN, ok \in BOOLEAN, failing \in Failings :
           EnsureSandbox(db_ok, ok, failing)
    \/ SandboxProperty

\* one sandbox, used through a tool or without one
SandboxSpec == InitSandbox /\ [][NextSandbox]_vars

\* C33: a DaytonaSandbox that was constructed with auto_create = False has
\* created no workspace, whatever calls of start, stop, execute_command and
\* delete were made on it.
C33_AutoCreateOnly ==
    (daytona.constructed /\ ~daytona.auto_create) => creations = 0

\* C39: when _ensure_sandbox or the property sandbox has returned the
\* sandbox, a call of start() by _ensure_sandbox has returned before, and no
\* more than one such call ever returns for the tool.
C39_StartedWhenReturned ==
    /\ (/\ sandbox_result.op \in {"_ensure_sandbox", "sandbox"}
        /\ sandbox_result.result = "returned")
       => starts >= 1
    /\ starts <= 1

(***************************************************************************)
(* The loop over threads that hold every type of message: what the loop    *)
(* removes from the thread, and what the early-stop check looks at.        *)
(***************************************************************************)
\* the messages of such a thread
FrameMessages ==
    { [type |-> "user", content |-> PlainContent],
      [type |-> "assistant", content |-> PlainContent],
      [type |-> "tool", content |-> PlainContent],
      [type |-> "system", content |-> PlainContent],
      [type |-> "browser_state", content |-> BrowserWithScreenshot],
      [type |-> "browser_state", content |-> Malformed],
      [type |-> "image_context", content |-> ImageWellFormed] }

NextFrame ==
    \/ Resume
    \/ \E chunk \in CtxChunks : StreamChunk(chunk)
    \/ StreamEnd
    \/ ExternalCallRaises
    \/ \E m \in FrameMessages : AppendMessage(m)

\* the loop, over the threads of no, one or two of these messages
FrameSpec ==
    /\ InitOver({<<>>} \cup {Thread(<<m>>, 1) : m \in FrameMessages}
                       \cup {Thread(<<m, n>>, 1) : m \in FrameMessages,
                                                   n \in FrameMessages})
    /\ [][NextFrame]_vars

\* the operations of the iteration so far include op
Did(log, op) == \E k \in 1..Len(log) : log[k] = op

\* C34: a step removes a message from the thread only if the step is the
\* fetch of the message's type (browser_state or image_context), the message
\* is the latest of that type at the fetch and its content parsed to a dict;
\* it is the one message removed, every other row stays as it was, and an
\* iteration that ends at the billing gate or at the early-stop check has
\* deleted nothing.
C34_FrameOfDeletes ==
    [][/\ \A i \in 1..Len(messages) :
             IF Present(messages', messages[i].message_id)
             THEN \E j \in 1..Len(messages') : messages'[j] = messages[i]
             ELSE /\ messages[i].type \in Ephemeral
                  /\ Fetches(messages[i].type)
                  /\ messages[i] = LatestOfType(messages, messages[i].type)
                  /\ messages[i].content.kind = "dict"
                  /\ Len(messages') = Len(messages) - 1
                  /\ Did(ops', "delete_message")
       /\ (pc' = "done" /\ exit' \in {"billing", "assistant"})
            => (messages' = messages /\ ~Did(ops', "delete_message"))]_vars

\* a tool message and a browser_state message were created, and the loop has
\* deleted the browser_state message and left the tool message
C34_Witness ==
    /\ Len(created) = 2
    /\ created[1].type = "tool"
    /\ created[2].type = "browser_state"
    /\ messages = <<created[1]>>
    /\ Did(ops, "delete_message")

\* the types the early-stop check selects
Conversation == {"assistant", "tool", "user"}

\* the thread has a message of these types, and the last one is an assistant's
LastConversationIsAssistant(msgs) ==
    LET idx == {i \in 1..Len(msgs) : msgs[i].type \in Conversation}
    IN  /\ idx # {}
        /\ msgs[CHOOSE i \in idx : \A j \in idx : j <= i].type = "assistant"

\* C35: the early-stop check, when its query returns, ends the run exactly
\* if the latest message among the assistant, tool and user messages is an
\* assistant message, whatever browser_state, image_context or system
\* messages were created after it; the run then ends without a model
\* invocation in this iteration and the thread stays as it is.
C35_EarlyStop ==
    [][/\ (pc = "latest" /\ pc' # "latest" /\ exit' # "raised")
            => /\ (pc' = "done" /\ exit' = "assistant")
                      <=> LastConversationIsAssistant(messages)
               /\ LastConversationIsAssistant(messages)
                      => /\ messages' = messages
                         /\ invocations' = invocations
                         /\ ~Did(ops', "run_thread")
               /\ ~LastConversationIsAssistant(messages) => pc' = "browser"
       /\ (pc = "done" /\ exit = "assistant")
            => (messages' = messages /\ invocations' = invocations)]_vars

\* a run that the early-stop check ended on a thread whose assistant message
\* is followed by a browser_state message, which is still in the thread
C35_Witness ==
    /\ pc = "done"
    /\ exit = "assistant"
    /\ invocations = 0
    /\ Len(messages) = 2
    /\ messages[1].type = "assistant"
    /\ messages[2].type = "browser_state"
    /\ messages[2].content.kind = "dict"
    /\ created = messages

(***************************************************************************)
(* The loop over streams that cut a closing tag in two: the first chunk    *)
(* ends inside the tag and the next one starts with the rest of it.        *)
(***************************************************************************)
\* texts of assistant output: "x</" and "ask>x"
TextCloseHead == <<"x", "<", "/">>

TextCloseTail == <<"ask", ">", "x">>

\* the chunks such a stream is drawn from
SplitChunks ==
    { Chunk("assistant", "str", Json("dict", "str", TextCloseHead)),
      Chunk("assistant", "str", Json("dict", "str", TextCloseTail)),
      Chunk("assistant", "str", Json("dict", "str", TextCompleteAtEnd)),
      Chunk("assistant", "str", Json("dict", "str", TextOpeningOnly)),
      Chunk("assistant", "str", Json("malformed", "absent", <<>>)),
      Chunk("status", "absent", NoJson) }

NextSplit ==
    \/ Resume
    \/ \E chunk \in SplitChunks : StreamChunk(chunk)
    \/ StreamEnd
    \/ ExternalCallRaises
    \/ \E m \in StreamEnvMessages : AppendMessage(m)

\* the loop, over the threads of StreamEnvMessages and the streams of SplitChunks
SplitSpec == InitStream /\ [][NextSplit]_vars

\* the text the producer wrote into a chunk, empty when it wrote none
WrittenText(chunk) == IF HasText(chunk) THEN chunk.content.json.text ELSE <<>>

\* two consecutive chunks of the stream hold, put together, a closing tag that
\* neither of them holds
SplitMarker(stream) ==
    \E i \in 1..(Len(stream) - 1) : \E name \in TerminalNames :
        /\ Contains(WrittenText(stream[i]) \o WrittenText(stream[i + 1]), CloseTag(name))
        /\ ~Contains(WrittenText(stream[i]), CloseTag(name))
        /\ ~Contains(WrittenText(stream[i + 1]), CloseTag(name))

\* C36: the recorded terminal action is None when the stream of an iteration
\* starts; a chunk changes it only if the chunk is an assistant chunk whose own
\* text holds the whole closing tag of the action recorded, so that a stream
\* none of whose chunks holds a whole closing tag records nothing, also when a
\* tag is cut across two chunks; and a chunk that follows a recorded action
\* never puts it back to None.
C36_PerChunk ==
    /\ [][(pc # "stream" /\ pc' = "stream") => last_tool_call' = "None"]_vars
    /\ [][\A chunk \in SplitChunks :
             (pc = "stream" /\ produced' = Append(produced, chunk))
             => /\ last_tool_call' # last_tool_call
                     => /\ HasText(chunk)
                        /\ last_tool_call' \in TerminalNames
                        /\ Contains(chunk.content.json.text, CloseTag(last_tool_call'))
                /\ HasClosingMarker(chunk) => last_tool_call' \in TerminalNames
                /\ last_tool_call # "None" => last_tool_call' # "None"]_vars
    /\ []((pc = "stream" /\ ~StreamHasMarker(produced)) => last_tool_call = "None")
    /\ [][(pc = "stream" /\ pc' = "loop" /\ ~StreamHasMarker(produced))
             => continue_execution' = continue_execution]_vars

\* a stream of "x</" and "ask>x" has ended, nothing was recorded and the loop
\* goes on
C36_Witness ==
    /\ pc = "loop"
    /\ continue_execution
    /\ iteration_count < max_iterations
    /\ Len(produced) = 2
    /\ WrittenText(produced[1]) = TextCloseHead
    /\ WrittenText(produced[2]) = TextCloseTail
    /\ SplitMarker(produced)
    /\ last_tool_call = "None"

(***************************************************************************)
(* The tool wrapper: MCPToolWrapper.run gets the global manager and calls  *)
(* execute_tool on it.  A call of run is a coroutine: awaiting a coroutine *)
(* that does not suspend does not let the others run, so run goes on from  *)
(* get_mcp_manager into execute_tool in one step.                          *)
(***************************************************************************)
\* the argument of run: kind is "absent" (no 'tool_name' key), "str" (a
\* string, <<>> is the empty one) or "int" (a number)
Args(kind, tool_name) == [kind |-> kind, tool_name |-> tool_name]

RunArgs ==
    { Args("absent", <<>>),
      Args("int", <<>>),
      Args("str", <<"mcp", "exa", "search">>),
      Args("str", <<"mcp", "a", "b", "search">>),
      Args("str", <<"mcp", "exa">>) }

\* an exception: its class and str() of it
Exception(type, text) == [type |-> type, text |-> text]

\* mcp_tool_wrapper.py 63, 78 and 81: the dict run returns for an error
ErrorDict(text) == [error |-> text]

\* the call a caller of run is in: manager is what get_mcp_manager returned,
\* exception is what the try block caught
RunCall(no, args, configs, idx, self) ==
    [op |-> "run", pc |-> "handshake", configs |-> configs, idx |-> idx,
     result |-> <<>>, outcomes |-> <<>>, no |-> no, force_reload |-> FALSE,
     self |-> self, args |-> args, manager |-> 0, conn |-> <<>>,
     original_tool_name |-> <<>>, exception |-> Exception("None", "None")]

\* mcp_tool_wrapper.py 62-63: run returns the error of the missing tool_name
RunReturnsRequired(rc) ==
    [rc EXCEPT !.pc = "returned",
               !.result = <<ErrorDict(<<"tool_name is a required argument.">>)>>]

\* a mutant of RunExcept: only ValueError is caught
RunExceptValueError(rc, exception) ==
    IF exception.type = "ValueError"
    THEN [rc EXCEPT !.pc = "returned", !.exception = exception,
                    !.result = <<ErrorDict(<<exception.text>>)>>]
    ELSE [rc EXCEPT !.pc = "raised", !.exception = exception]

\* mcp_tool_wrapper.py 76-81: the exception is caught and its message returned
RunExcept(rc, exception) ==
    [rc EXCEPT !.pc = "returned", !.exception = exception,
               !.result = IF exception.type = "ValueError"
                          THEN <<ErrorDict(<<exception.text>>)>>
                          ELSE <<ErrorDict(<<"An unexpected error occurred: ",
                                             exception.text>>)>>]

\* mcp_tool_wrapper.py 72 with client.py 174-187: get_mcp_manager returned
\* manager, whose cache is cache, and execute_tool runs up to its first await
RunExecute(rc, manager, cache, key) ==
    IF rc.args.kind = "int"
    THEN RunExcept([rc EXCEPT !.manager = manager],
                   Exception("AttributeError", "'int' object has no attribute 'split'"))
    ELSE LET entered == ExecuteToolEntered(rc.args.tool_name, cache, key)
         IN  IF entered.pc = "raised"
             THEN RunExcept([rc EXCEPT !.manager = manager],
                            Exception("ValueError", entered.error))
             ELSE [rc EXCEPT !.pc = "transport", !.manager = manager,
                             !.conn = entered.conn,
                             !.original_tool_name = entered.original_tool_name]

\* mcp_tool_wrapper.py 55-72: a caller that is in no call calls run(args) of a
\* wrapper made with mcp_configs, which runs up to its first await that
\* suspends
RunEnter(c, args, mcp_configs) ==
    /\ call[c].pc \in {"idle", "returned", "raised"}
    /\ calls < MaxCalls
    /\ calls' = calls + 1
    /\ IF args.kind = "absent" \/ (args.kind = "str" /\ args.tool_name = <<>>)
       THEN /\ call' = [call EXCEPT ![c] =
                           RunReturnsRequired(RunCall(calls + 1, args, <<>>, 1, 0))]
            /\ UNCHANGED <<mcp_manager, caches>>
       ELSE IF MustBuild(mcp_manager, FALSE)
       THEN LET new == Len(caches) + 1
                configs == DictConfigs(mcp_configs)
                idx == NextAwait(EmptyDict, configs, 1, SMITHERY_API_KEY)
                rc == RunCall(calls + 1, args, configs, idx, new)
            IN  /\ caches' = Append(caches, EmptyDict)
                /\ mcp_manager' = new
                /\ call' = [call EXCEPT ![c] =
                               IF idx > Len(configs)
                               THEN RunExecute(rc, new, EmptyDict, SMITHERY_API_KEY)
                               ELSE rc]
       ELSE /\ call' = [call EXCEPT ![c] =
                           RunExecute(RunCall(calls + 1, args, <<>>, 1, mcp_manager),
                                      mcp_manager, caches[mcp_manager],
                                      SMITHERY_API_KEY)]
            /\ UNCHANGED <<mcp_manager, caches>>
    /\ UNCHANGED <<SMITHERY_API_KEY, connections, opened, objects, loopVars, sandboxVars>>

\* client.py 97-134 under mcp_tool_wrapper.py 25-27 and 69-72: the handshake
\* of the configuration connect_all is at comes to an end; after the last one
\* get_mcp_manager returns the global manager and execute_tool is entered
RunHandshake(c, succeeded, tools) ==
    /\ call[c].op = "run"
    /\ call[c].pc = "handshake"
    /\ LET cfg == call[c].configs[call[c].idx]
           q == cfg.qualifiedName
           m == call[c].self
           cache == IF succeeded
                    THEN Store(caches[m], q, MCPConnection(cfg, tools, objects + 1))
                    ELSE caches[m]
           idx == NextAwait(cache, call[c].configs, call[c].idx + 1, SMITHERY_API_KEY)
           rc == [call[c] EXCEPT
                     !.idx = idx,
                     !.outcomes = Append(@, IF succeeded THEN "connected" ELSE "failed")]
       IN  /\ opened' = [opened EXCEPT ![q] = @ + 1]
           /\ objects' = IF succeeded THEN objects + 1 ELSE objects
           /\ caches' = [caches EXCEPT ![m] = cache]
           /\ call' = [call EXCEPT ![c] =
                          IF idx > Len(call[c].configs)
                          THEN RunExecute(rc, mcp_manager,
                                          IF mcp_manager = m THEN cache
                                          ELSE caches[mcp_manager],
                                          SMITHERY_API_KEY)
                          ELSE rc]
    /\ UNCHANGED <<SMITHERY_API_KEY, connections, calls, mcp_manager, loopVars,
                   sandboxVars>>

\* client.py 189-229 under mcp_tool_wrapper.py 72-74: the transport of the
\* execution is opened and the tool called; execute_tool returns the dict of
\* the result or of the exception, and run returns it
RunTransport(c, outcome) ==
    /\ call[c].op = "run"
    /\ call[c].pc = "transport"
    /\ opened' = [opened EXCEPT ![call[c].conn[1].qualified_name] = @ + 1]
    /\ call' = [call EXCEPT ![c].pc = "returned",
                            ![c].result =
                                IF outcome.kind = "raise" THEN <<ToolError(outcome.reason)>>
                                ELSE <<ToolResult(outcome.result)>>]
    /\ UNCHANGED <<SMITHERY_API_KEY, connections, objects, calls, mcp_manager, caches,
                   loopVars, sandboxVars>>

\* the lists of configurations the wrappers that run are made with
RunConfigLists ==
    { <<[qualifiedName |-> "exa", name |-> "Exa", config |-> [exaApiKey |-> "k"],
         enabledTools |-> <<"search">>]>>,
      <<[qualifiedName |-> "exa", name |-> "Exa", config |-> [exaApiKey |-> "k"],
         enabledTools |-> <<"search">>],
        [qualifiedName |-> "a_b", name |-> "AB", config |-> EmptyDict]>> }

\* the wrappers run on two of the outcomes of a transport, and the global
\* manager is reloaded with the list of one configuration
NextRun ==
    \/ \E c \in Callers, args \in RunArgs, mcp_configs \in RunConfigLists :
           RunEnter(c, args, mcp_configs)
    \/ \E c \in Callers, succeeded \in BOOLEAN, tools \in ToolLists :
           RunHandshake(c, succeeded, tools)
    \/ \E c \in Callers :
       \E outcome \in {o \in ToolOutcomes :
                           o.at = "connect" \/ (o.kind = "result" /\ o.result.isError = "True")} :
           RunTransport(c, outcome)
    \/ \E c \in Callers, mcp_configs \in {l \in RunConfigLists : Len(l) = 1} :
           GetMcpManagerEnter(c, TRUE, mcp_configs)
    \/ \E c \in Callers, succeeded \in BOOLEAN, tools \in ToolLists :
           GetMcpManagerHandshake(c, succeeded, tools)

\* the wrappers, run by the coroutines of Callers, some of which reload the
\* global manager
RunSpec == InitMcp /\ [][NextRun]_vars

(***************************************************************************)
(* The properties of the global manager under concurrent callers and of    *)
(* the tool wrapper.                                                       *)
(***************************************************************************)
\* C37: a manager that a call of get_mcp_manager has returned is not a manager
\* whose connect_all, started by the call that constructed it, is still
\* awaiting a handshake.
C37_ConnectedWhenReturned ==
    \A c \in Callers, d \in Callers :
        (/\ call[c].op = "get_mcp_manager" /\ call[c].pc = "returned"
         /\ call[d].op = "get_mcp_manager" /\ call[d].pc = "handshake")
        => call[c].result[1] # call[d].self

\* no key of the cache is the server the identifier names: the segments after
\* 'mcp' do not start with the name of a cached server followed by a tool name
NotInCache(tool_name, cache) ==
    \A q \in DOMAIN cache :
        ~(/\ Len(tool_name) > Len(Segments(q)) + 1
          /\ SubSeq(tool_name, 2, Len(Segments(q)) + 1) = Segments(q))

NotConnected == "not connected"

\* the caller starts a call of run in this step
StartsRun(c) ==
    /\ call[c].pc \in {"idle", "returned", "raised"}
    /\ call'[c] # call[c]
    /\ call'[c].op = "run"

\* C38: execute_tool, entered with a well-formed identifier of a server that
\* is not in the cache of its manager, raises the not-connected error and has
\* no connection and no result; a call of run that finds the global manager
\* without the server returns the dict of that error at once, opens no
\* transport, constructs no connection and leaves the caches as they are, and
\* the step in which run returns that error opens no transport and adds no
\* server to a cache but for the handshake of connect_all that ends in that
\* step; a call of run never ends by raising, and when its try
\* block caught an exception it returned one dict whose 'error' ends with the
\* message of the exception.
C38_NotConnected ==
    /\ [](\A m \in 1..Len(caches) : \A args \in RunArgs :
             (/\ args.kind = "str" /\ WellFormedId(args.tool_name)
              /\ NotInCache(args.tool_name, caches[m]))
             => LET entered == ExecuteToolEntered(args.tool_name, caches[m],
                                                  SMITHERY_API_KEY)
                IN  /\ entered.pc = "raised" /\ entered.error = NotConnected
                    /\ entered.conn = <<>> /\ entered.result = <<>>)
    /\ [][\A c \in Callers :
             (/\ StartsRun(c) /\ mcp_manager # 0
              /\ call'[c].args.kind = "str" /\ WellFormedId(call'[c].args.tool_name)
              /\ NotInCache(call'[c].args.tool_name, caches[mcp_manager]))
             => /\ call'[c].pc = "returned"
                /\ call'[c].result = <<[error |-> <<NotConnected>>]>>
                /\ opened' = opened /\ objects' = objects
                /\ caches' = caches /\ mcp_manager' = mcp_manager]_vars
    /\ [][\A c \in Callers :
             (/\ call'[c] # call[c] /\ call'[c].op = "run"
              /\ call'[c].result = <<[error |-> <<NotConnected>>]>>)
             => \A q \in QualifiedNames :
                    IF /\ call[c].op = "run" /\ call[c].pc = "handshake"
                       /\ call[c].configs[call[c].idx].qualifiedName = q
                    THEN opened'[q] = opened[q] + 1
                    ELSE /\ opened'[q] = opened[q]
                         /\ \A m \in 1..Len(caches') :
                                q \in DOMAIN caches'[m]
                                => (m <= Len(caches) /\ q \in DOMAIN caches[m])]_vars
    /\ [](\A c \in Callers : call[c].op = "run" =>
             /\ call[c].pc # "raised"
             /\ call[c].pc = "returned" => Len(call[c].result) = 1
             /\ call[c].exception.type # "None"
                  => /\ call[c].pc = "returned"
                     /\ DOMAIN call[c].result[1] = {"error"}
                     /\ call[c].result[1].error[Len(call[c].result[1].error)]
                            = call[c].exception.text)

\* a call of run for mcp_a_b_search connected exa alone, its handshake with
\* a_b having failed, and returned the not-connected error with no transport
\* opened since
C38_Witness ==
    \E c \in Callers :
        /\ call[c].op = "run" /\ call[c].pc = "returned"
        /\ call[c].args.tool_name = <<"mcp", "a", "b", "search">>
        /\ call[c].outcomes = <<"connected", "failed">>
        /\ call[c].manager = 1 /\ DOMAIN caches[1] = {"exa"}
        /\ call[c].exception = Exception("ValueError", NotConnected)
        /\ call[c].result = <<[error |-> <<NotConnected>>]>>
        /\ opened["exa"] = 1 /\ opened["a_b"] = 1
====
